---- MODULE Spec2Model ----
(***************************************************************************)
(* Layered-graph crossing minimisation (mfms-ncsu/Layered-Graphs).         *)
(* The model covers the in-memory layered graph, the sgf loader's layer    *)
(* construction, the iteration controller (end_of_iteration, terminate),   *)
(* the best-so-far tracker, the heuristics of heuristics.c, the            *)
(* preprocessors and the swapping post-processor, driven by main().        *)
(*                                                                         *)
(* Conventions.  Nodes are identified by their index in the master node    *)
(* list as built by the loader (0-based).  layers[l] is the array          *)
(* layers[l]->nodes as a sequence, so slot i of the C array is element     *)
(* i+1 of the sequence.  position[n] is the field node->position and is    *)
(* kept separately from the slot a node occupies.  Stretch values are      *)
(* scaled by StretchScale so that they are integers.  RUNTIME is an        *)
(* integer clock that never runs backwards.                                *)
(***************************************************************************)
EXTENDS Integers, Sequences, FiniteSets, TLC

VARIABLES
  \* ---- graph (graph.h)
  number_of_layers,     \* int number_of_layers
  node_id,              \* node->id, by node
  node_name,            \* node->name, by node
  node_layer,           \* node->layer, by node
  master_node_list,     \* Nodeptr * master_node_list
  master_edge_list,     \* Edgeptr * master_edge_list: [down_node, up_node]
  up_edges, down_edges, \* node->up_edges, node->down_edges: edges by index
  up_degree, down_degree, \* node->up_degree, node->down_degree
  layers,               \* layers[l]->nodes
  position,             \* node->position, by node
  node_fixed,           \* node->fixed
  edge_fixed,           \* edge->fixed, by index in master_edge_list
  layer_fixed,          \* layers[l]->fixed
  \* ---- command-line options (main.c, defs.h)
  heuristic, preprocessor, max_iterations, max_runtime, max_passes,
  standard_termination, capture_iteration, write_files,
  do_post_processing, mce_option, randomize_order,
  sift_option,          \* enum sift_option_enum sift_option (-s)
  \* ---- iteration controller and best-so-far tracker
  iteration, pass, clock,
  cached_crossings,     \* what numberOfCrossings()/maxEdgeCrossings() return
  stats,                \* total_crossings, max_edge_crossings, total_stretch,
                        \* bottleneck_stretch: [best, previous_best, iter]
  best_crossings_order, best_edge_crossings_order,
  best_total_stretch_order, best_bottleneck_stretch_order,
  post_processing_crossings, post_processing_iteration,
  \* ---- control
  pc,                   \* where main() and the running heuristic stand
  loc,                  \* local variables of the running function
  \* ---- observation of the last step and of the run
  ev,                   \* what the last step did (calls and their results)
  units,                \* units of work done by the heuristic so far
  capture_log,          \* iterations for which a capture file was written
  pass_improved,        \* some best value was improved since the pass began
  true_returns,         \* calls of end_of_iteration that returned true
  \* ---- loaders (graph_io.c, sgf.c)
  sgf_input,            \* the lines of the sgf input still to be read
  sgf_state,            \* stage of the load: "header", "nodes", "edges",
                        \* "inserting", "loaded", "aborted"
  ord_input,            \* the ord file: the node names of each layer
  dot_input,            \* the edges of the dot file still to be read
  sgf_text,             \* the whole sgf input
  written,              \* the graph writeSgf has written, <<>> if none
  \* ---- trace output (heuristics.c) and output files (graph_io.c)
  trace_freq,                 \* int trace_freq (-t)
  previous_print_iteration,   \* static int of tracePrint
  trace_last,                 \* the last call of tracePrint and what it printed
  write_sgf_output,           \* bool write_sgf_output
  write_ord_output,           \* bool write_ord_output
  out_stream                  \* FILE * out_stream of writeFile

adjVars == <<up_edges, down_edges, up_degree, down_degree>>
graphVars == <<number_of_layers, node_id, node_name, node_layer,
               master_edge_list, adjVars>>
orderVars == <<layers, position>>
fixedVars == <<node_fixed, edge_fixed, layer_fixed>>
optVars == <<heuristic, preprocessor, max_iterations, max_runtime, max_passes,
             standard_termination, capture_iteration, write_files,
             do_post_processing, mce_option, randomize_order, sift_option>>
bestVars == <<stats, best_crossings_order, best_edge_crossings_order,
              best_total_stretch_order, best_bottleneck_stretch_order>>
postVars == <<post_processing_crossings, post_processing_iteration>>
sgfVars == <<sgf_input, sgf_state, sgf_text, ord_input, dot_input, written>>
traceVars == <<trace_freq, previous_print_iteration, trace_last>>
outVars == <<write_sgf_output, write_ord_output, out_stream>>
vars == <<graphVars, master_node_list, orderVars, fixedVars, optVars,
          iteration, pass, clock, cached_crossings, bestVars, postVars,
          pc, loc, ev, units, capture_log, pass_improved, true_returns, sgfVars,
          traceVars, outVars>>

\* ------------------------------------------------------------- constants
INT_MAX == 2147483647
INT_MIN == (-2147483647) - 1
\* DBL_MAX as a runtime no clock reading reaches
DBL_MAX == 2147483647
\* the value used in the Matuszewski et al. paper
MAX_FAILS == 1

\* ------------------------------------------------------------- bounds
MaxIterationsOpt == 3   \* largest value given to -i
MaxClock == 2           \* largest clock reading
MaxIteration == 7       \* no unit of work is started at a later iteration
MaxPass == 4            \* no pass is started after this many
MaxSgfNodes == 3        \* most 'n' lines of an sgf input of nodes
MaxSgfLines == 4        \* most lines of an sgf input of lines of all kinds
MaxSgfEdges == 2        \* most 'e' lines of an sgf input of edges
MaxDotEdges == 2        \* most edges of a dot file

\* ------------------------------------------------------------- helpers
Range(s) == {s[i] : i \in 1..Len(s)}
Max(a, b) == IF a > b THEN a ELSE b
Abs(a) == IF a < 0 THEN -a ELSE a
RECURSIVE SumOver(_, _)
SumOver(S, f) ==
  IF S = {} THEN 0
  ELSE LET x == CHOOSE y \in S : TRUE IN f[x] + SumOver(S \ {x}, f)
MaxOf(S) == IF S = {} THEN 0 ELSE CHOOSE m \in S : \A v \in S : v <= m
MinOf(S) == CHOOSE m \in S : \A v \in S : m <= v
IndexOf(s, x) == CHOOSE i \in 1..Len(s) : s[i] = x
RECURSIVE Permutations_(_)
Permutations_(S) ==
  IF S = {} THEN {<<>>}
  ELSE UNION {{<<x>> \o p : p \in Permutations_(S \ {x})} : x \in S}

number_of_nodes == Len(master_node_list)
number_of_edges == Len(master_edge_list)
Nodes == 0..(number_of_nodes - 1)
Edges == 1..number_of_edges
LayerIds == 0..(number_of_layers - 1)

\* ------------------------------------------------------------- crossings
\* edges e and f (indices into master_edge_list) cross when the nodes are
\* placed as pos says: they join the same two layers and their endpoints
\* are in opposite orders (an inversion of the bilayer procedure)
Cross(pos, e, f) ==
  LET a == master_edge_list[e]
      b == master_edge_list[f]
  IN /\ node_layer[a.down_node] = node_layer[b.down_node]
     /\ \/ pos[a.down_node] < pos[b.down_node] /\ pos[a.up_node] > pos[b.up_node]
        \/ pos[a.down_node] > pos[b.down_node] /\ pos[a.up_node] < pos[b.up_node]

EdgeCrossings(pos, e) == Cardinality({f \in Edges : Cross(pos, e, f)})

\* each crossing pair is counted once
CountCrossings(pos) ==
  Cardinality({p \in Edges \X Edges : p[1] < p[2] /\ Cross(pos, p[1], p[2])})

CountMaxEdgeCrossings(pos) ==
  MaxOf({EdgeCrossings(pos, e) : e \in Edges})

\* crossings on the edges incident to node n
NodeCrossings(pos, n) ==
  SumOver({e \in Edges : master_edge_list[e].down_node = n
                          \/ master_edge_list[e].up_node = n},
          [e \in Edges |-> EdgeCrossings(pos, e)])

\* crossings on the edges incident to layer l (edges above + below)
LayerCrossings(pos, l) ==
  SumOver({e \in Edges : node_layer[master_edge_list[e].down_node] = l
                          \/ node_layer[master_edge_list[e].up_node] = l},
          [e \in Edges |-> EdgeCrossings(pos, e)])

\* a count that takes the edges of u and v to cross when they do not
NodeCrossingsReversed(pos, u, v) ==
  Cardinality({p \in Edges \X Edges :
     LET a == master_edge_list[p[1]]
         b == master_edge_list[p[2]]
     IN \/ a.down_node = u /\ b.down_node = v /\ pos[a.up_node] < pos[b.up_node]
        \/ a.up_node = u /\ b.up_node = v /\ pos[a.down_node] < pos[b.down_node]})
\* node_crossings(u, v): crossings among edges of u and v when u is to the
\* left of v on their common layer
node_crossings(pos, u, v) ==
  Cardinality({p \in Edges \X Edges :
     LET a == master_edge_list[p[1]]
         b == master_edge_list[p[2]]
     IN \/ a.down_node = u /\ b.down_node = v /\ pos[a.up_node] > pos[b.up_node]
        \/ a.up_node = u /\ b.up_node = v /\ pos[a.down_node] > pos[b.down_node]})

\* ------------------------------------------------------------- stretch
LayerSize(l) == Len(layers[l])
RECURSIVE ProductUpTo(_)
ProductUpTo(l) ==
  IF l < 0 THEN 1 ELSE Max(LayerSize(l) - 1, 1) * ProductUpTo(l - 1)
\* |pu/(nu-1) - pv/(nv-1)| multiplied by StretchScale is an integer
StretchScale == ProductUpTo(number_of_layers - 1)
ScaledPosition(pos, n, scale) ==
  IF LayerSize(node_layer[n]) <= 1 THEN 0
  ELSE pos[n] * (scale \div (LayerSize(node_layer[n]) - 1))
ScaledStretch(pos, e, scale) ==
  Abs(ScaledPosition(pos, master_edge_list[e].down_node, scale)
      - ScaledPosition(pos, master_edge_list[e].up_node, scale))
EdgeStretch(pos, e) == ScaledStretch(pos, e, StretchScale)
CountTotalStretch(pos) ==
  LET scale == StretchScale
  IN SumOver(Edges, [e \in Edges |-> ScaledStretch(pos, e, scale)])
CountBottleneckStretch(pos) ==
  LET scale == StretchScale
  IN MaxOf({ScaledStretch(pos, e, scale) : e \in Edges})

\* ------------------------------------------------------------- orderings
\* the position each node has when it stands in the slot lays gives it
SlotPosition(lays) ==
  [n \in Nodes |-> IndexOf(lays[node_layer[n]], n) - 1]

\* the layer invariant of heuristics.h: positions agree with slots
LayerInvariantOf(lays, pos) ==
  \A l \in LayerIds : \A i \in 1..Len(lays[l]) :
     pos[lays[l][i]] = i - 1 /\ node_layer[lays[l][i]] = l

Degree(n) ==
  Cardinality({e \in Edges : master_edge_list[e].down_node = n})
  + Cardinality({e \in Edges : master_edge_list[e].up_node = n})

\* sortByDegree: the orders of the array that ascend by degree (the order
\* among nodes of equal degree is not determined)
RECURSIVE AscendingByDegree(_)
AscendingByDegree(S) ==
  IF S = {} THEN {<<>>}
  ELSE LET least == MinOf({Degree(n) : n \in S})
       IN UNION {{<<x>> \o p : p \in AscendingByDegree(S \ {x})} :
                   x \in {n \in S : Degree(n) = least}}
SortByDegree(arr) == AscendingByDegree(Range(arr))

\* layerSort: stable sort of the array by weight w
SortedByWeight(arr, w) ==
  LET rank(n) == Cardinality({m \in Range(arr) :
                     \/ w[m] < w[n]
                     \/ w[m] = w[n] /\ IndexOf(arr, m) < IndexOf(arr, n)})
  IN [i \in 1..Len(arr) |-> CHOOSE n \in Range(arr) : rank(n) = i - 1]

\* positions after layerSort has reassigned them on layer l
Reposition(pos, arr) ==
  [n \in Nodes |-> IF n \in Range(arr) THEN IndexOf(arr, n) - 1 ELSE pos[n]]

\* an ordering: the node arrays of the layers and the position fields
Ordering(lays, pos) == [layers |-> lays, position |-> pos]

\* layerSort( layer ) with the weights w: sorts the array and reassigns
\* position to match the new slots
layerSort(o, l, w) ==
  LET sorted == SortedByWeight(o.layers[l], w)
  IN Ordering([o.layers EXCEPT ![l] = sorted], Reposition(o.position, sorted))

\* the weights a sort-based heuristic may compute for the nodes of an array:
\* one assignment for each order the stable sort can produce
WeightChoices(arr) ==
  {[n \in Range(arr) |-> IndexOf(s, n)] : s \in Permutations_(Range(arr))}

\* a layer sort by barycenter or median weights: the weights are left open
SortLayerByWeights(o, l) ==
  {layerSort(o, l, w) : w \in WeightChoices(o.layers[l])}

\* the array with node n taken out and put back at slot p (0-based)
MoveTo(arr, n, p) ==
  LET rest == SelectSeq(arr, LAMBDA x : x # n)
  IN [i \in 1..Len(arr) |->
        IF i < p + 1 THEN rest[i] ELSE IF i = p + 1 THEN n ELSE rest[i - 1]]

\* node n placed at slot p of its layer, positions of the layer reassigned
Placed(o, n, p) ==
  LET arr == MoveTo(o.layers[node_layer[n]], n, p)
  IN Ordering([o.layers EXCEPT ![node_layer[n]] = arr], Reposition(o.position, arr))

\* the value a sift of node n minimises: the total number of crossings, the
\* largest number of crossings of an edge incident to n, or the total stretch
SiftObjective(kind, pos, n) ==
  CASE kind = "crossings" -> CountCrossings(pos)
    [] kind = "edge_crossings" ->
         MaxOf({EdgeCrossings(pos, e) :
                  e \in {f \in Edges : master_edge_list[f].down_node = n
                                       \/ master_edge_list[f].up_node = n}})
    [] kind = "total_stretch" -> CountTotalStretch(pos)

\* sifting of node n for an objective: every slot of its layer is tried and
\* the leftmost slot of least objective value is taken
SiftFor(o, n, kind) ==
  LET slots == 0..(Len(o.layers[node_layer[n]]) - 1)
      least == MinOf({SiftObjective(kind, Placed(o, n, p).position, n) : p \in slots})
      best == MinOf({p \in slots :
                       SiftObjective(kind, Placed(o, n, p).position, n) = least})
  IN Placed(o, n, best)

\* sift( node ): minimises the total number of crossings
sift(o, n) == SiftFor(o, n, "crossings")

\* sift_node_for_edge_crossings: minimises the largest number of crossings
\* of an edge incident to the sifted node
sift_node_for_edge_crossings(o, n) == SiftFor(o, n, "edge_crossings")

\* sift_node_for_total_stretch: minimises the total stretch
sift_node_for_total_stretch(o, n) == SiftFor(o, n, "total_stretch")

\* updateAllCrossings / updateCrossingsForLayer: the cached counts that
\* numberOfCrossings() and maxEdgeCrossings() return
UpdatedCrossings(pos) ==
  [total |-> CountCrossings(pos), bottleneck |-> CountMaxEdgeCrossings(pos)]

\* ------------------------------------------------------------- best-so-far
Objectives ==
  {"total_crossings", "max_edge_crossings", "total_stretch", "bottleneck_stretch"}

\* init_crossing_stats: no value recorded yet
InitialStats ==
  [o \in Objectives |-> [best |-> INT_MAX, previous_best |-> INT_MAX, iter |-> -1]]

\* the current value of each objective as update_best_all reads it
CurrentValues(pos, cache) ==
  [total_crossings |-> cache.total,
   max_edge_crossings |-> cache.bottleneck,
   total_stretch |-> CountTotalStretch(pos),
   bottleneck_stretch |-> CountBottleneckStretch(pos)]

\* a tracker that records every value that differs from the recorded one
BetterOrDifferent(cur, best) == cur # best
\* the condition on which update_best records a new best
Better(cur, best) == cur < best

update_best(st, cur, it) ==
  IF Better(cur, st.best) THEN [st EXCEPT !.best = cur, !.iter = it] ELSE st

update_best_all(sts, cur, it) ==
  [o \in Objectives |-> update_best(sts[o], cur[o], it)]

\* a snapshot that is never overwritten
SnapshotKept(o, sts, cur, lays, old) == old
\* the snapshot of objective o after update_best: overwritten on improvement
SnapshotAfter(o, sts, cur, lays, old) ==
  IF Better(cur[o], sts[o].best) THEN lays ELSE old

\* has_improved: best against previous_best, which is then brought up to date
has_improved(st) == st.best < st.previous_best
AfterHasImproved(sts) ==
  [o \in Objectives |-> [sts[o] EXCEPT !.previous_best = sts[o].best]]

\* no_improvement (heuristics.c): none of the four measures has improved
\* since the last call
no_improvement(sts) == \A o \in Objectives : ~ has_improved(sts[o])

\* ------------------------------------------------------------- controller
\* the clock readings a step may see: RUNTIME never decreases.  Without -r
\* no reading reaches max_runtime and the readings are not told apart.
Ticks ==
  IF max_runtime = DBL_MAX THEN {clock}
  ELSE {t \in {clock, clock + 1} : t <= MaxClock}

\* end_of_iteration's test with > in place of >=
EndOfIterationDoneStrict(it, now) == it > max_iterations \/ now > max_runtime
\* end_of_iteration's test with = in place of >=
EndOfIterationDoneExact(it, now) == it = max_iterations \/ now = max_runtime
\* end_of_iteration, heuristics.c:192
EndOfIterationDone(it, now) == it >= max_iterations \/ now >= max_runtime

\* a capture that ignores write_files
CaptureConditionAlways(it) == capture_iteration = it
\* end_of_iteration, heuristics.c:166
CaptureCondition(it) == capture_iteration = it /\ write_files

\* print_last_iteration_message: calls no_improvement(), which brings the
\* previous_best fields up to date, when max_iterations has been reached
print_last_iteration_message(sts, it) ==
  IF it >= max_iterations THEN AfterHasImproved(sts) ELSE sts

\* what the last step did
NoEvent ==
  [eoi |-> FALSE, done |-> FALSE, captured |-> FALSE, term |-> "none",
   no_improvement |-> FALSE, improved |-> FALSE, pass |-> 0,
   after_pass |-> FALSE,
   unit |-> FALSE, swap |-> "none", saved |-> FALSE, returned |-> "none",
   iteration |-> 0, edge |-> 0, node |-> -1]

\* end_of_iteration() on the ordering o with cached counts cache, the clock
\* reading now: the part of the state it writes
end_of_iteration(o, cache, now) ==
  LET cur == CurrentValues(o.position, cache)
      st1 == update_best_all(stats, cur, iteration)
  IN /\ capture_log' = IF CaptureCondition(iteration)
                       THEN capture_log \cup {iteration} ELSE capture_log
     /\ stats' = IF EndOfIterationDone(iteration, now)
                 THEN print_last_iteration_message(st1, iteration) ELSE st1
     /\ best_crossings_order' =
          SnapshotAfter("total_crossings", stats, cur, o.layers, best_crossings_order)
     /\ best_edge_crossings_order' =
          SnapshotAfter("max_edge_crossings", stats, cur, o.layers, best_edge_crossings_order)
     /\ best_total_stretch_order' =
          SnapshotAfter("total_stretch", stats, cur, o.layers, best_total_stretch_order)
     /\ best_bottleneck_stretch_order' =
          SnapshotAfter("bottleneck_stretch", stats, cur, o.layers, best_bottleneck_stretch_order)
     /\ iteration' = iteration + 1
     /\ clock' = now
     /\ true_returns' = IF EndOfIterationDone(iteration, now)
                        THEN true_returns + 1 ELSE true_returns

\* the event record of a step that called end_of_iteration
EoiEvent(now) ==
  [NoEvent EXCEPT !.eoi = TRUE, !.done = EndOfIterationDone(iteration, now),
                  !.captured = CaptureCondition(iteration),
                  !.iteration = iteration]

\* terminate() without the test of the iteration counter
TerminateWithoutIterations(sts, it, ps) ==
  \/ standard_termination /\ no_improvement(sts)
  \/ ps >= max_passes
\* terminate(), heuristics.c:234-249: the value it returns
terminate(sts, it, ps) ==
  \/ standard_termination /\ no_improvement(sts)
  \/ it >= max_iterations
  \/ ps >= max_passes

\* ------------------------------------------------------------- inputs
LayerOf(seq) == [n \in 0..(Len(seq) - 1) |-> seq[n + 1]]
E(d, u) == [down_node |-> d, up_node |-> u]

\* the graphs the runs are made on: layer of each node, edges
Graphs ==
  { \* two layers, 2 + 3 nodes, three crossings in input order
    [nl |-> 2, layer |-> <<0, 0, 1, 1, 1>>,
     edges |-> <<E(0, 3), E(0, 4), E(1, 2), E(1, 3)>>],
    \* K(2,2)
    [nl |-> 2, layer |-> <<0, 0, 1, 1>>,
     edges |-> <<E(0, 2), E(0, 3), E(1, 2), E(1, 3)>>],
    \* a single layer, no edges
    [nl |-> 1, layer |-> <<0, 0>>, edges |-> <<>>],
    \* three layers, 2 + 2 + 1 nodes, one crossing in input order
    [nl |-> 3, layer |-> <<0, 0, 1, 1, 2>>,
     edges |-> <<E(0, 3), E(1, 2), E(1, 3), E(2, 4), E(3, 4)>>] }

Heuristics ==
  {"", "median", "bary", "mod_bary", "mcn", "sifting", "mce", "mce_s", "mse"}
Preprocessors == {"", "bfs", "dfs", "mds"}

\* -h and -R; mce_option stays NODES, main() has no option that sets it
HeuristicConfigs ==
  {[h |-> h, mce |-> "NODES", rnd |-> FALSE] : h \in Heuristics}
  \cup {[h |-> "sifting", mce |-> "NODES", rnd |-> TRUE]}

\* -i and -r: either one switches standard termination off (main.c:303-317)
StandardRun == [i |-> INT_MAX, r |-> DBL_MAX, std |-> TRUE]
TerminationConfigs ==
  {StandardRun}
  \cup {[i |-> n, r |-> DBL_MAX, std |-> FALSE] : n \in 0..MaxIterationsOpt}
  \cup {[i |-> INT_MAX, r |-> t, std |-> FALSE] : t \in 0..(MaxClock - 1)}
  \cup {[i |-> 2, r |-> 1, std |-> FALSE]}

\* -c and whether files are written
NoCapture == [c |-> INT_MIN, w |-> FALSE]
CaptureConfigs ==
  {[c |-> -1, w |-> TRUE], [c |-> 2, w |-> TRUE], [c |-> 2, w |-> FALSE]}

\* the command lines the runs are made with
CommandLines ==
  {[hc |-> hc, tc |-> tc, cc |-> NoCapture, p |-> "", post |-> TRUE] :
      hc \in HeuristicConfigs, tc \in TerminationConfigs}
  \cup {[hc |-> [h |-> h, mce |-> "NODES", rnd |-> FALSE], tc |-> StandardRun,
         cc |-> NoCapture, p |-> p, post |-> TRUE] :
      h \in {"", "bary"}, p \in Preprocessors}
  \cup {[hc |-> [h |-> h, mce |-> "NODES", rnd |-> FALSE], tc |-> tc,
         cc |-> cc, p |-> "", post |-> TRUE] :
      h \in {"bary", "sifting"}, cc \in CaptureConfigs,
      tc \in {StandardRun, [i |-> MaxIterationsOpt, r |-> DBL_MAX, std |-> FALSE]}}
  \cup {[hc |-> [h |-> h, mce |-> "NODES", rnd |-> FALSE], tc |-> StandardRun,
         cc |-> NoCapture, p |-> "", post |-> FALSE] : h \in {"", "mcn"}}

InputOrder(g) ==
  [l \in 0..(g.nl - 1) |->
     SelectSeq([i \in 1..Len(g.layer) |-> i - 1], LAMBDA n : g.layer[n + 1] = l)]

NoLocals ==
  [layer |-> 0, pick |-> 0, edge |-> 0, sift_up |-> FALSE, sift_down |-> FALSE,
   index |-> 0, fail_count |-> 0, crossings_before |-> 0, fail |-> FALSE,
   odd_even |-> 0, i |-> 0, improved |-> FALSE, previous_best_crossings |-> 0]

\* the state main() is in after the graph is read, the crossings are
\* initialised and updated and the clock is started (main.c:450-480)
InitGraphAt(g, lays) ==
  /\ number_of_layers = g.nl
  /\ node_layer = LayerOf(g.layer)
  /\ node_id = [n \in 0..(Len(g.layer) - 1) |-> n]
  /\ node_name = [n \in 0..(Len(g.layer) - 1) |-> n]
  /\ master_node_list = [i \in 1..Len(g.layer) |-> i - 1]
  /\ master_edge_list = g.edges
  /\ up_edges = [n \in 0..(Len(g.layer) - 1) |->
                  SelectSeq([i \in 1..Len(g.edges) |-> i],
                            LAMBDA e : g.edges[e].down_node = n)]
  /\ down_edges = [n \in 0..(Len(g.layer) - 1) |->
                    SelectSeq([i \in 1..Len(g.edges) |-> i],
                              LAMBDA e : g.edges[e].up_node = n)]
  /\ up_degree = [n \in 0..(Len(g.layer) - 1) |-> Len(up_edges[n])]
  /\ down_degree = [n \in 0..(Len(g.layer) - 1) |-> Len(down_edges[n])]
  /\ layers = lays
  /\ position = [n \in 0..(Len(g.layer) - 1) |->
                   IndexOf(lays[g.layer[n + 1]], n) - 1]
  /\ node_fixed = [n \in 0..(Len(g.layer) - 1) |-> FALSE]
  /\ edge_fixed = [e \in 1..Len(g.edges) |-> FALSE]
  /\ layer_fixed = [l \in 0..(g.nl - 1) |-> FALSE]

\* a graph with a layer of four nodes of pairwise different degree, given
\* to the preprocessors only: 3 + 4 nodes, degrees 3 2 1 and 2 0 3 1
WideGraph ==
  [nl |-> 2, layer |-> <<0, 0, 0, 1, 1, 1, 1>>,
   edges |-> <<E(0, 3), E(1, 3), E(0, 5), E(1, 5), E(2, 5), E(0, 6)>>]
PreprocessorRuns ==
  {[g |-> WideGraph,
    cl |-> [hc |-> [h |-> "", mce |-> "NODES", rnd |-> FALSE],
            tc |-> StandardRun, cc |-> NoCapture, p |-> p, post |-> TRUE]] :
      p \in {"mds", "bfs"}}
Runs == {[g |-> g, cl |-> cl] : g \in Graphs, cl \in CommandLines}
          \cup PreprocessorRuns

\* -s layer | degree | random (main.c:350-360), given to the plain runs of
\* sifting; DEGREE is the initial value (main.c:44)
sift_option_enum == {"LAYER", "DEGREE", "RANDOM"}
SiftOptionsOf(cl) ==
  IF cl.hc.h = "sifting" /\ ~ cl.hc.rnd /\ cl.tc = StandardRun /\ cl.cc = NoCapture
  THEN sift_option_enum ELSE {"DEGREE"}

\* the graph as it is read: every layer in input order
InitGraph(g) == InitGraphAt(g, InputOrder(g))

\* the trace state and the output flags as main() finds them: trace_freq is
\* -1 (main.c:79), tracePrint has printed nothing, and neither output flag
\* is set (graph_io.c:40-41)
NoTrace == [called |-> FALSE, layer |-> 0, printed |-> FALSE, lines |-> 0]
NoStream == [state |-> "none", fclose_calls |-> 0, text |-> <<>>]
QuietTrace ==
  /\ trace_freq = -1
  /\ previous_print_iteration = 0
  /\ trace_last = NoTrace
NoOutputFile ==
  /\ write_sgf_output = FALSE
  /\ write_ord_output = FALSE
  /\ out_stream = NoStream

InitMain(cl) ==
  /\ heuristic = cl.hc.h
  /\ mce_option = cl.hc.mce
  /\ randomize_order = cl.hc.rnd
  /\ sift_option \in SiftOptionsOf(cl)
  /\ max_iterations = cl.tc.i
  /\ max_runtime = cl.tc.r
  /\ standard_termination = cl.tc.std
  /\ capture_iteration = cl.cc.c
  /\ write_files = cl.cc.w
  /\ preprocessor = cl.p
  /\ do_post_processing = cl.post
  /\ max_passes = INT_MAX
  /\ iteration = 0 /\ pass = 0 /\ clock = 0
  /\ cached_crossings = UpdatedCrossings(position)
  /\ stats = InitialStats
  /\ best_crossings_order = layers
  /\ best_edge_crossings_order = layers
  /\ best_total_stretch_order = layers
  /\ best_bottleneck_stretch_order = layers
  /\ post_processing_crossings = INT_MAX
  /\ post_processing_iteration = 0
  /\ loc = NoLocals
  /\ ev = NoEvent
  /\ units = 0
  /\ capture_log = {}
  /\ pass_improved = FALSE
  /\ true_returns = 0
  /\ sgf_input = <<>>
  /\ sgf_state = "loaded"
  /\ sgf_text = <<>>
  /\ ord_input = <<>> /\ dot_input = <<>> /\ written = <<>>

InitRun(run) ==
  /\ InitGraph(run.g)
  /\ InitMain(run.cl)
  /\ pc = "preprocess"
  /\ QuietTrace
  /\ NoOutputFile

Init == \E run \in Runs : InitRun(run)

Current == Ordering(layers, position)

\* some objective is strictly better on ordering o than its recorded best
Improves(o, cache) ==
  LET cur == CurrentValues(o.position, cache)
  IN \E obj \in Objectives : Better(cur[obj], stats[obj].best)

\* the ordering becomes o, the crossing counts are brought up to date and
\* end_of_iteration() is called
MoveAndEndIteration(o, now) ==
  /\ layers' = o.layers
  /\ position' = o.position
  /\ cached_crossings' = UpdatedCrossings(o.position)
  /\ end_of_iteration(o, UpdatedCrossings(o.position), now)
  /\ pass_improved' = (pass_improved \/ Improves(o, UpdatedCrossings(o.position)))

\* ------------------------------------------------------------- preprocessors
\* weight_first_to_middle: the weight of the node in slot i (0-based) of arr
\* variant: the weight falls with the distance from the end on both parities
weight_last_stays(arr) ==
  [m \in Range(arr) |-> (Len(arr) \div 2) - (Len(arr) - IndexOf(arr, m))]

weight_first_to_middle(arr) ==
  LET n == Len(arr)
  IN [m \in Range(arr) |->
        LET position_from_last == n - (IndexOf(arr, m) - 1) - 1
        IN IF position_from_last % 2 = 0
           THEN (n \div 2) - position_from_last
           ELSE (n \div 2) + position_from_last]

\* one layer of middleDegreeSort on an array that sortByDegree has
\* rearranged into byDegree
MiddleSortLayer(o, l, byDegree) ==
  layerSort(Ordering([o.layers EXCEPT ![l] = byDegree], o.position), l,
            weight_first_to_middle(byDegree))

RECURSIVE MiddleDegreeSortFrom(_, _)
MiddleDegreeSortFrom(o, l) ==
  IF l >= number_of_layers THEN {o}
  ELSE UNION {MiddleDegreeSortFrom(MiddleSortLayer(o, l, d), l + 1) :
                d \in SortByDegree(o.layers[l])}
middleDegreeSort(o) == MiddleDegreeSortFrom(o, 0)

\* depthFirstSearch: every layer is sorted by the weights the traversal
\* assigns
RECURSIVE DepthFirstSearchFrom(_, _)
DepthFirstSearchFrom(o, l) ==
  IF l >= number_of_layers THEN {o}
  ELSE UNION {DepthFirstSearchFrom(o2, l + 1) : o2 \in SortLayerByWeights(o, l)}
depthFirstSearch(o) == DepthFirstSearchFrom(o, 0)

\* breadthFirstSearch prints "bfs not implemented" and changes nothing
runPreprocessor(o) ==
  CASE preprocessor = "dfs" -> depthFirstSearch(o)
    [] preprocessor = "mds" -> middleDegreeSort(o)
    [] OTHER -> {o}

\* main(): runPreprocessor(); updateAllCrossings();
RunPreprocessor ==
  /\ pc = "preprocess"
  /\ \E o \in runPreprocessor(Current) :
       /\ layers' = o.layers
       /\ position' = o.position
       /\ cached_crossings' = UpdatedCrossings(o.position)
  /\ pc' = "iteration0"
  /\ ev' = [NoEvent EXCEPT !.returned = preprocessor]
  /\ UNCHANGED <<graphVars, master_node_list, fixedVars, optVars, traceVars, outVars, iteration,
                 pass, clock, bestVars, postVars, loc, units, capture_log,
                 pass_improved, true_returns, sgfVars>>

\* main(): end_of_iteration() for "iteration 0"; its result is not looked at
Iteration0 ==
  /\ pc = "iteration0"
  /\ \E now \in Ticks :
       /\ end_of_iteration(Current, cached_crossings, now)
       /\ ev' = EoiEvent(now)
  /\ pass_improved' = (pass_improved \/ Improves(Current, cached_crossings))
  /\ pc' = "heuristic"
  /\ UNCHANGED <<graphVars, master_node_list, orderVars, cached_crossings,
                 fixedVars, optVars, traceVars, outVars, pass, postVars, loc, units, sgfVars>>

\* ------------------------------------------------------------- heuristics
TerminateHeuristics == {"median", "bary", "mod_bary", "mcn", "mce", "mce_s", "mse"}
EdgeHeuristics == {"mce", "mce_s", "mse"}

\* where control goes when a sweep is to start at layer l: a sweep over no
\* layer does nothing
StartDownSweep(l) ==
  IF l >= 0 THEN [pc |-> "down_sweep", layer |-> l]
  ELSE [pc |-> IF heuristic = "mod_bary" THEN "mod_bary_pick" ELSE "terminate",
        layer |-> 0]
StartUpSweep(l, down) ==
  IF l <= number_of_layers - 1 THEN [pc |-> "up_sweep", layer |-> l]
  ELSE StartDownSweep(down)

\* the body of the while ( ! terminate() ) loop begins
StartPass ==
  CASE heuristic \in {"median", "bary"} ->
         LET c == StartUpSweep(1, number_of_layers - 2)
         IN /\ pc' = c.pc
            /\ loc' = [loc EXCEPT !.layer = c.layer, !.pick = number_of_layers - 1]
            /\ UNCHANGED fixedVars
    [] heuristic = "mod_bary" ->
         /\ pc' = "mod_bary_pick"
         /\ layer_fixed' = [l \in LayerIds |-> FALSE]
         /\ UNCHANGED <<loc, node_fixed, edge_fixed>>
    [] heuristic = "mcn" ->
         /\ pc' = "mcn_pick"
         /\ node_fixed' = [n \in Nodes |-> FALSE]
         /\ UNCHANGED <<loc, layer_fixed, edge_fixed>>
    [] heuristic \in EdgeHeuristics ->
         /\ pc' = "edge_pick"
         /\ node_fixed' = [n \in Nodes |-> FALSE]
         /\ edge_fixed' = [e \in Edges |-> FALSE]
         /\ UNCHANGED <<loc, layer_fixed>>

\* runHeuristic(): sifting() begins by sorting the master node list
RunHeuristic ==
  /\ pc = "heuristic"
  /\ IF heuristic = "sifting"
     THEN /\ master_node_list' \in SortByDegree(master_node_list)
          /\ pc' = "sifting_loop"
          /\ loc' = [loc EXCEPT !.fail_count = 0]
     ELSE /\ pc' = IF heuristic = "" THEN "after_heuristic" ELSE "terminate"
          /\ UNCHANGED <<master_node_list, loc>>
  /\ ev' = NoEvent
  /\ UNCHANGED <<graphVars, orderVars, fixedVars, optVars, traceVars, outVars, iteration, pass,
                 clock, cached_crossings, bestVars, postVars, units,
                 capture_log, pass_improved, true_returns, sgfVars>>

\* while ( ! terminate() ): the test at the head of the loop of every
\* heuristic but sifting, and the start of the pass when it lets the loop
\* go on.  Time passes between two calls.
Terminate ==
  /\ pc = "terminate"
  /\ heuristic \in TerminateHeuristics
  /\ \E now \in Ticks : clock' = now
  /\ stats' = AfterHasImproved(stats)
  /\ IF terminate(stats, iteration, pass)
     THEN /\ pc' = "after_heuristic"
          /\ ev' = [NoEvent EXCEPT !.term = "true",
                      !.no_improvement = no_improvement(stats),
                      !.improved = pass_improved, !.pass = pass,
                      !.after_pass = (pass >= 1)]
          /\ UNCHANGED <<pass, loc, fixedVars, pass_improved>>
     ELSE /\ pass < MaxPass
          /\ pass' = pass + 1
          /\ pass_improved' = FALSE
          /\ ev' = [NoEvent EXCEPT !.term = "false",
                      !.no_improvement = no_improvement(stats),
                      !.improved = pass_improved, !.pass = pass,
                      !.after_pass = (pass >= 1)]
          /\ StartPass
  /\ UNCHANGED <<graphVars, master_node_list, orderVars, optVars, traceVars, outVars, iteration,
                 cached_crossings, best_crossings_order,
                 best_edge_crossings_order, best_total_stretch_order,
                 best_bottleneck_stretch_order, postVars, units, capture_log,
                 true_returns, sgfVars>>

\* one layer of medianUpSweep/barycenterUpSweep: weights, layerSort,
\* updateCrossingsForLayer, end_of_iteration
SweepUp ==
  /\ pc = "up_sweep"
  /\ iteration < MaxIteration
  /\ \E now \in Ticks : \E o \in SortLayerByWeights(Current, loc.layer) :
       /\ MoveAndEndIteration(o, now)
       /\ ev' = [EoiEvent(now) EXCEPT !.unit = TRUE]
       /\ LET c == StartUpSweep(loc.layer + 1, loc.pick - 1)
          IN IF EndOfIterationDone(iteration, now)
             THEN pc' = "after_heuristic" /\ loc' = loc
             ELSE pc' = c.pc /\ loc' = [loc EXCEPT !.layer = c.layer]
  /\ units' = units + 1
  /\ UNCHANGED <<graphVars, master_node_list, fixedVars, optVars, traceVars, outVars, pass,
                 postVars, sgfVars>>

\* one layer of medianDownSweep/barycenterDownSweep
SweepDown ==
  /\ pc = "down_sweep"
  /\ iteration < MaxIteration
  /\ \E now \in Ticks : \E o \in SortLayerByWeights(Current, loc.layer) :
       /\ MoveAndEndIteration(o, now)
       /\ ev' = [EoiEvent(now) EXCEPT !.unit = TRUE]
       /\ LET c == StartDownSweep(loc.layer - 1)
          IN IF EndOfIterationDone(iteration, now)
             THEN pc' = "after_heuristic" /\ loc' = loc
             ELSE pc' = c.pc /\ loc' = [loc EXCEPT !.layer = c.layer]
  /\ units' = units + 1
  /\ UNCHANGED <<graphVars, master_node_list, fixedVars, optVars, traceVars, outVars, pass,
                 postVars, sgfVars>>

\* maxCrossingsLayer: the unfixed layer with the most crossings, the lowest
\* such layer on a tie, -1 when every layer is fixed
maxCrossingsLayer(pos) ==
  LET free == {l \in LayerIds : ~ layer_fixed[l]}
      most == MaxOf({LayerCrossings(pos, m) : m \in free})
  IN IF free = {} THEN -1
     ELSE MinOf({l \in free : LayerCrossings(pos, l) = most})

\* maxCrossingsNode: the unfixed nodes with the most crossings (none when
\* every node is fixed)
maxCrossingsNode(pos) ==
  LET free == {n \in Nodes : ~ node_fixed[n]}
      most == MaxOf({NodeCrossings(pos, m) : m \in free})
  IN {n \in free : NodeCrossings(pos, n) = most}

\* maxCrossingsEdge: the unfixed edges with the most crossings
maxCrossingsEdge(pos) ==
  LET free == {e \in Edges : ~ edge_fixed[e]}
      most == MaxOf({EdgeCrossings(pos, f) : f \in free})
  IN {e \in free : EdgeCrossings(pos, e) = most}

\* maxStretchEdge: the unfixed edges with the largest stretch
maxStretchEdge(pos) ==
  LET free == {e \in Edges : ~ edge_fixed[e]}
      most == MaxOf({EdgeStretch(pos, f) : f \in free})
  IN {e \in free : EdgeStretch(pos, e) = most}

allNodesFixed == \A n \in Nodes : node_fixed[n]

\* modifiedBarycenter: the inner loop up to the call of end_of_iteration
ModBaryPick ==
  /\ pc = "mod_bary_pick"
  /\ LET layer == maxCrossingsLayer(position)
     IN IF layer = -1
        THEN /\ pc' = "terminate"
             /\ ev' = NoEvent
             /\ UNCHANGED <<orderVars, cached_crossings, bestVars, iteration,
                            clock, capture_log, pass_improved, true_returns, units, loc,
                            layer_fixed>>
        ELSE /\ iteration < MaxIteration
             /\ layer_fixed' = [layer_fixed EXCEPT ![layer] = TRUE]
             /\ \E now \in Ticks : \E o \in SortLayerByWeights(Current, layer) :
                  /\ MoveAndEndIteration(o, now)
                  /\ ev' = [EoiEvent(now) EXCEPT !.unit = TRUE]
                  /\ LET c == StartUpSweep(layer + 1, layer - 1)
                     IN IF EndOfIterationDone(iteration, now)
                        THEN pc' = "after_heuristic" /\ loc' = loc
                        ELSE /\ pc' = c.pc
                             /\ loc' = [loc EXCEPT !.layer = c.layer, !.pick = layer]
             /\ units' = units + 1
  /\ UNCHANGED <<graphVars, master_node_list, node_fixed, edge_fixed, optVars, traceVars, outVars,
                 pass, postVars, sgfVars>>

\* maximumCrossingsNode: the inner loop, with sift_iteration
McnPick ==
  /\ pc = "mcn_pick"
  /\ IF maxCrossingsNode(position) = {}
     THEN /\ pc' = "terminate"
          /\ ev' = NoEvent
          /\ UNCHANGED <<orderVars, cached_crossings, bestVars, iteration,
                         clock, capture_log, pass_improved, true_returns, units, node_fixed>>
     ELSE /\ iteration < MaxIteration
          /\ \E now \in Ticks : \E node \in maxCrossingsNode(position) :
               /\ MoveAndEndIteration(sift(Current, node), now)
               /\ node_fixed' = [node_fixed EXCEPT ![node] = TRUE]
               /\ ev' = [EoiEvent(now) EXCEPT !.unit = TRUE]
               /\ pc' = IF EndOfIterationDone(iteration, now)
                        THEN "after_heuristic" ELSE "mcn_pick"
          /\ units' = units + 1
  /\ UNCHANGED <<graphVars, master_node_list, edge_fixed, layer_fixed, optVars, traceVars, outVars,
                 pass, postVars, loc, sgfVars>>

\* the edge a pass of mce, mce_s or mse works on next
PickedEdges(pos) ==
  IF heuristic = "mse" THEN maxStretchEdge(pos) ELSE maxCrossingsEdge(pos)

\* end_mce_pass for an edge that is not NULL
end_mce_pass(e) ==
  \/ /\ mce_option = "EARLY"
     /\ node_fixed[master_edge_list[e].up_node]
     /\ node_fixed[master_edge_list[e].down_node]
  \/ mce_option = "NODES" /\ allNodesFixed

\* the test that ends the inner loop once an edge has been picked
EndEdgePass(e) ==
  IF heuristic = "mce" THEN end_mce_pass(e) ELSE allNodesFixed

\* variants: the upper endpoint is sifted whether fixed or not; the lower
\* endpoint is sifted whenever it is not fixed
sift_up_node_always(e) == TRUE
sift_down_node_unfixed(e) == ~ node_fixed[master_edge_list[e].down_node]

\* edge_sift_iteration: which endpoints are sifted
sift_up_node(e) ==
  LET up == master_edge_list[e].up_node
      down == master_edge_list[e].down_node
      u == mce_option = "EDGES" \/ ~ node_fixed[up]
      d == mce_option = "EDGES" \/ ~ node_fixed[down]
  IN IF mce_option = "ONE_NODE" /\ u /\ d
     THEN ~ (NodeCrossings(position, down) > NodeCrossings(position, up))
     ELSE u
sift_down_node(e) ==
  LET up == master_edge_list[e].up_node
      down == master_edge_list[e].down_node
      u == mce_option = "EDGES" \/ ~ node_fixed[up]
      d == mce_option = "EDGES" \/ ~ node_fixed[down]
  IN IF mce_option = "ONE_NODE" /\ u /\ d
     THEN NodeCrossings(position, down) > NodeCrossings(position, up)
     ELSE d

\* which endpoints the three edge heuristics sift
SiftsUp(e) ==
  IF heuristic = "mce" THEN sift_up_node(e)
  ELSE ~ node_fixed[master_edge_list[e].up_node]
SiftsDown(e) ==
  IF heuristic = "mce" THEN sift_down_node(e)
  ELSE ~ node_fixed[master_edge_list[e].down_node]

\* the sift each of the three applies to an endpoint
SiftEndpoint(o, n) ==
  CASE heuristic = "mce" -> sift_node_for_edge_crossings(o, n)
    [] heuristic = "mce_s" -> sift(o, n)
    [] heuristic = "mse" -> sift_node_for_total_stretch(o, n)

\* an endpoint of edge e is sifted and fixed and end_of_iteration is
\* called; more says that the other endpoint is still to be sifted
SiftEdgeNode(e, node, more) ==
  /\ iteration < MaxIteration
  /\ \E now \in Ticks :
       /\ MoveAndEndIteration(SiftEndpoint(Current, node), now)
       /\ ev' = [EoiEvent(now) EXCEPT !.unit = TRUE, !.edge = e, !.node = node]
       /\ node_fixed' = [node_fixed EXCEPT ![node] = TRUE]
       /\ IF EndOfIterationDone(iteration, now)
          THEN pc' = "after_heuristic" /\ UNCHANGED <<edge_fixed, loc>>
          ELSE IF more
               THEN /\ pc' = "edge_down"
                    /\ loc' = [loc EXCEPT !.edge = e]
                    /\ UNCHANGED edge_fixed
               ELSE /\ pc' = "edge_pick"
                    /\ edge_fixed' = [edge_fixed EXCEPT ![e] = TRUE]
                    /\ UNCHANGED loc
  /\ units' = units + 1

\* maximumCrossingsEdge, maximumCrossingsEdgeWithSifting, maximumStretchEdge:
\* the inner loop up to the first call of end_of_iteration
EdgePick ==
  /\ pc = "edge_pick"
  /\ IF PickedEdges(position) = {}
     THEN /\ pc' = "terminate"
          /\ ev' = NoEvent
          /\ UNCHANGED <<orderVars, cached_crossings, bestVars, iteration,
                         clock, capture_log, pass_improved, true_returns, units, node_fixed,
                         edge_fixed, loc>>
     ELSE \E e \in PickedEdges(position) :
            IF EndEdgePass(e)
            THEN /\ pc' = "terminate"
                 /\ ev' = NoEvent
                 /\ UNCHANGED <<orderVars, cached_crossings, bestVars,
                                iteration, clock, capture_log, pass_improved, true_returns,
                                units, node_fixed, edge_fixed, loc>>
            ELSE IF SiftsUp(e)
            THEN SiftEdgeNode(e, master_edge_list[e].up_node, SiftsDown(e))
            ELSE IF SiftsDown(e)
            THEN SiftEdgeNode(e, master_edge_list[e].down_node, FALSE)
            ELSE /\ pc' = "edge_pick"
                 /\ edge_fixed' = [edge_fixed EXCEPT ![e] = TRUE]
                 /\ ev' = NoEvent
                 /\ UNCHANGED <<orderVars, cached_crossings, bestVars,
                                iteration, clock, capture_log, pass_improved, true_returns,
                                units, node_fixed, loc>>
  /\ UNCHANGED <<graphVars, master_node_list, layer_fixed, optVars, traceVars, outVars, pass,
                 postVars, sgfVars>>

\* the sift of the lower endpoint after the upper one
EdgeDown ==
  /\ pc = "edge_down"
  /\ SiftEdgeNode(loc.edge, master_edge_list[loc.edge].down_node, FALSE)
  /\ UNCHANGED <<graphVars, master_node_list, layer_fixed, optVars, traceVars, outVars, pass,
                 postVars, sgfVars>>

\* ------------------------------------------------------------- sifting
\* genrand_permute followed by sortByDegree when -R is given
Reshuffled ==
  IF randomize_order THEN SortByDegree(master_node_list) ELSE {master_node_list}

\* the loop test of sifting() and, when it lets the loop go on, the start
\* of the body: terminate() is called only if the first operand is false
SiftingLoop ==
  /\ pc = "sifting_loop"
  /\ IF standard_termination /\ loc.fail_count < MAX_FAILS
     THEN /\ ev' = NoEvent
          /\ pc' = "sift_first"
          /\ UNCHANGED <<clock, stats, pass>>
     ELSE /\ \E now \in Ticks : clock' = now
          /\ stats' = AfterHasImproved(stats)
          /\ ev' = [NoEvent EXCEPT
                      !.term = IF terminate(stats, iteration, pass)
                               THEN "true" ELSE "false",
                      !.no_improvement = no_improvement(stats),
                      !.improved = pass_improved, !.pass = pass,
                      !.after_pass = (pass >= 1 \/ loc.fail_count >= 1)]
          /\ IF terminate(stats, iteration, pass)
             THEN pc' = "after_heuristic" /\ pass' = pass
             ELSE pass < MaxPass /\ pass' = pass + 1 /\ pc' = "sift_first"
  /\ IF pc' = "sift_first"
     THEN /\ master_node_list' \in Reshuffled
          /\ loc' = [loc EXCEPT !.crossings_before = cached_crossings.total,
                                !.fail = FALSE,
                                !.index = number_of_nodes - 1]
          /\ pass_improved' = FALSE
     ELSE UNCHANGED <<master_node_list, loc, pass_improved>>
  /\ UNCHANGED <<graphVars, orderVars, fixedVars, optVars, traceVars, outVars, iteration,
                 cached_crossings, best_crossings_order,
                 best_edge_crossings_order, best_total_stretch_order,
                 best_bottleneck_stretch_order, postVars, units, capture_log,
                 true_returns, sgfVars>>

\* what sift_decreasing/sift_increasing return when their loop is left
\* with the crossing count total and the iteration counter at it
SiftSucceeded(total, it) == total < loc.crossings_before /\ it < max_iterations

\* one round of the loop of the first sift_decreasing of a pass and, when
\* the loop is left, sifting() up to the start of the second sift
SiftFirst ==
  /\ pc = "sift_first"
  /\ iteration < MaxIteration
  /\ \E now \in Ticks :
       LET o == sift(Current, master_node_list[loc.index + 1])
           fail == ~ SiftSucceeded(CountCrossings(o.position), iteration + 1)
       IN /\ MoveAndEndIteration(o, now)
          /\ ev' = [EoiEvent(now) EXCEPT !.unit = TRUE]
          /\ IF ~ EndOfIterationDone(iteration, now) /\ loc.index > 0
             THEN /\ loc' = [loc EXCEPT !.index = loc.index - 1]
                  /\ pc' = "sift_first"
                  /\ UNCHANGED master_node_list
             ELSE IF iteration + 1 >= max_iterations
             THEN /\ pc' = "after_heuristic"
                  /\ loc' = [loc EXCEPT !.fail = fail]
                  /\ UNCHANGED master_node_list
             ELSE /\ master_node_list' \in Reshuffled
                  /\ pc' = "sift_second"
                  /\ loc' = [loc EXCEPT
                       !.fail = fail,
                       !.fail_count = IF fail THEN @ + 1 ELSE @,
                       !.index = IF fail THEN 0 ELSE number_of_nodes - 1]
  /\ units' = units + 1
  /\ UNCHANGED <<graphVars, fixedVars, optVars, traceVars, outVars, pass, postVars, sgfVars>>

\* one round of the loop of the second sift of a pass: sift_increasing
\* after a failure, sift_decreasing otherwise
SiftSecond ==
  /\ pc = "sift_second"
  /\ iteration < MaxIteration
  /\ \E now \in Ticks :
       LET o == sift(Current, master_node_list[loc.index + 1])
           increasing == loc.fail
           last == IF increasing THEN loc.index = number_of_nodes - 1
                   ELSE loc.index = 0
       IN /\ MoveAndEndIteration(o, now)
          /\ ev' = [EoiEvent(now) EXCEPT !.unit = TRUE]
          /\ IF ~ EndOfIterationDone(iteration, now) /\ ~ last
             THEN /\ loc' = [loc EXCEPT
                       !.index = IF increasing THEN @ + 1 ELSE @ - 1]
                  /\ pc' = "sift_second"
             ELSE /\ pc' = "sift_eoi"
                  /\ loc' = [loc EXCEPT !.fail =
                       ~ SiftSucceeded(CountCrossings(o.position), iteration + 1)]
  /\ units' = units + 1
  /\ UNCHANGED <<graphVars, master_node_list, fixedVars, optVars, traceVars, outVars, pass,
                 postVars, sgfVars>>

\* sifting(): the call of end_of_iteration after the second sift, and the
\* count of the failure
SiftEoi ==
  /\ pc = "sift_eoi"
  /\ iteration < MaxIteration
  /\ \E now \in Ticks :
       /\ end_of_iteration(Current, cached_crossings, now)
       /\ ev' = EoiEvent(now)
       /\ IF EndOfIterationDone(iteration, now)
          THEN pc' = "after_heuristic" /\ loc' = loc
          ELSE /\ pc' = "sifting_loop"
               /\ loc' = [loc EXCEPT
                    !.fail_count = IF loc.fail THEN @ + 1 ELSE @]
  /\ pass_improved' = (pass_improved \/ Improves(Current, cached_crossings))
  /\ UNCHANGED <<graphVars, master_node_list, orderVars, cached_crossings,
                 fixedVars, optVars, traceVars, outVars, pass, postVars, units, sgfVars>>

\* ------------------------------------------------------------- swapping
\* an exchange of the array elements that leaves the position fields alone
SwapSlotsOnly(o, l, i, j) ==
  LET arr == o.layers[l]
  IN Ordering([o.layers EXCEPT ![l] = [arr EXCEPT ![i + 1] = arr[j + 1],
                                                  ![j + 1] = arr[i + 1]]],
              o.position)
\* swap_nodes( nodes, i, j ) on layer l: i and j are slots of the C array
swap_nodes(o, l, i, j) ==
  LET arr == o.layers[l]
  IN Ordering([o.layers EXCEPT ![l] = [arr EXCEPT ![i + 1] = arr[j + 1],
                                                  ![j + 1] = arr[i + 1]]],
              [o.position EXCEPT ![arr[i + 1]] = j, ![arr[j + 1]] = i])

\* the pairs (layer, i) that swapping_iteration( crossings, odd_even ) looks at
SwapPairs(odd_even) ==
  {p \in LayerIds \X (0..number_of_nodes) :
     /\ p[1] >= odd_even /\ (p[1] - odd_even) % 2 = 0
     /\ p[2] >= odd_even /\ (p[2] - odd_even) % 2 = 0
     /\ p[2] < Len(layers[p[1]]) - 1}
Before(p, q) == p[1] < q[1] \/ (p[1] = q[1] /\ p[2] < q[2])
FirstPair(S) == CHOOSE p \in S : \A q \in S : q = p \/ Before(p, q)

\* control at the start of swapping_iteration( crossings, odd_even )
BeginSwappingIteration(odd_even) ==
  IF SwapPairs(odd_even) = {}
  THEN [pc |-> "swap_end", layer |-> 0, i |-> 0]
  ELSE [pc |-> "swap", layer |-> FirstPair(SwapPairs(odd_even))[1],
        i |-> FirstPair(SwapPairs(odd_even))[2]]

\* main(): what follows runHeuristic(), up to the first swapping_iteration
PostProcessing ==
  /\ pc = "after_heuristic"
  /\ ev' = [NoEvent EXCEPT !.returned = "heuristic"]
  /\ IF do_post_processing
     THEN /\ layers' = best_crossings_order
          /\ position' = SlotPosition(best_crossings_order)
          /\ cached_crossings' = UpdatedCrossings(position')
          /\ post_processing_crossings' = cached_crossings'.total
          /\ post_processing_iteration' = 0
          /\ LET c == BeginSwappingIteration(0)
             IN /\ pc' = c.pc
                /\ loc' = [loc EXCEPT !.improved = TRUE,
                             !.previous_best_crossings = cached_crossings'.total,
                             !.odd_even = 0, !.layer = c.layer, !.i = c.i]
     ELSE /\ pc' = "exit"
          /\ UNCHANGED <<orderVars, cached_crossings, postVars, loc>>
  /\ UNCHANGED <<graphVars, master_node_list, fixedVars, optVars, traceVars, outVars, iteration,
                 pass, clock, bestVars, units, capture_log, pass_improved, true_returns,
                 sgfVars>>

\* swapping_iteration: one round of the inner loop
SwapPair ==
  /\ pc = "swap"
  /\ LET nodes == layers[loc.layer]
         crossings_before_swap ==
           node_crossings(position, nodes[loc.i + 1], nodes[loc.i + 2])
         crossings_after_swap ==
           node_crossings(position, nodes[loc.i + 2], nodes[loc.i + 1])
         diff == crossings_before_swap - crossings_after_swap
         rest == {p \in SwapPairs(loc.odd_even) : Before(<<loc.layer, loc.i>>, p)}
     IN /\ IF diff > 0
           THEN /\ layers' = swap_nodes(Current, loc.layer, loc.i, loc.i + 1).layers
                /\ position' = swap_nodes(Current, loc.layer, loc.i, loc.i + 1).position
                /\ post_processing_crossings' = post_processing_crossings - diff
                /\ ev' = [NoEvent EXCEPT !.swap = "swapped"]
           ELSE /\ UNCHANGED <<orderVars, post_processing_crossings>>
                /\ ev' = [NoEvent EXCEPT !.swap = "kept"]
        /\ IF rest = {}
           THEN pc' = "swap_end" /\ loc' = loc
           ELSE /\ pc' = "swap"
                /\ loc' = [loc EXCEPT !.layer = FirstPair(rest)[1],
                                      !.i = FirstPair(rest)[2]]
  /\ UNCHANGED <<graphVars, master_node_list, fixedVars, optVars, traceVars, outVars, iteration,
                 pass, clock, cached_crossings, bestVars,
                 post_processing_iteration, units, capture_log, pass_improved, true_returns,
                 sgfVars>>

\* variant: a round that keeps the count also counts as an improvement
SwapImprovedOrKept(crossings, previous_best) == crossings <= previous_best
\* swapping(): post_processing_crossings < previous_best_crossings
SwapImproved(crossings, previous_best) == crossings < previous_best

\* swapping(): what follows a swapping_iteration
SwapEnd ==
  /\ pc = "swap_end"
  /\ LET better == SwapImproved(post_processing_crossings,
                                loc.previous_best_crossings)
         cur == CurrentValues(position, cached_crossings)
         improved == IF loc.odd_even = 0 THEN better ELSE (loc.improved \/ better)
         again == IF loc.odd_even = 0 THEN 1 ELSE 0
         c == BeginSwappingIteration(again)
     IN /\ IF better
           THEN /\ stats' = update_best_all(stats, cur, iteration)
                /\ best_crossings_order' = layers
                /\ best_edge_crossings_order' =
                     SnapshotAfter("max_edge_crossings", stats, cur, layers,
                                   best_edge_crossings_order)
                /\ best_total_stretch_order' =
                     SnapshotAfter("total_stretch", stats, cur, layers,
                                   best_total_stretch_order)
                /\ best_bottleneck_stretch_order' =
                     SnapshotAfter("bottleneck_stretch", stats, cur, layers,
                                   best_bottleneck_stretch_order)
           ELSE UNCHANGED bestVars
        /\ ev' = [NoEvent EXCEPT !.saved = better]
        /\ post_processing_iteration' =
             post_processing_iteration + (IF loc.odd_even = 0 THEN 2 ELSE 1)
        /\ IF loc.odd_even = 1 /\ ~ improved
           THEN pc' = "exit" /\ loc' = [loc EXCEPT !.improved = FALSE]
           ELSE /\ pc' = c.pc
                /\ loc' = [loc EXCEPT
                     !.improved = improved,
                     !.previous_best_crossings =
                        IF better THEN post_processing_crossings ELSE @,
                     !.odd_even = again, !.layer = c.layer, !.i = c.i]
  /\ UNCHANGED <<graphVars, master_node_list, orderVars, fixedVars, optVars, traceVars, outVars,
                 iteration, pass, clock, cached_crossings,
                 post_processing_crossings, units, capture_log, pass_improved, true_returns,
                 sgfVars>>

Next ==
  \/ RunPreprocessor
  \/ Iteration0
  \/ RunHeuristic
  \/ Terminate
  \/ SweepUp
  \/ SweepDown
  \/ ModBaryPick
  \/ McnPick
  \/ EdgePick
  \/ EdgeDown
  \/ SiftingLoop
  \/ SiftFirst
  \/ SiftSecond
  \/ SiftEoi
  \/ PostProcessing
  \/ SwapPair
  \/ SwapEnd

Spec == Init /\ [][Next]_vars

\* ------------------------------------------- the four values of mce_option
\* maximumCrossingsEdge under every value of the enum mce_option, on the
\* graphs above and on one with an isolated node
mce_option_enum == {"NODES", "EDGES", "EARLY", "ONE_NODE"}
IsolatedGraph ==
  [nl |-> 2, layer |-> <<0, 0, 1, 1, 1>>, edges |-> <<E(0, 3), E(1, 2)>>]
\* K(2,3): three crossings in every ordering
CompleteGraph ==
  [nl |-> 2, layer |-> <<0, 0, 1, 1, 1>>,
   edges |-> <<E(0, 2), E(0, 3), E(0, 4), E(1, 2), E(1, 3), E(1, 4)>>]
MceRuns ==
  {[g |-> g,
    cl |-> [hc |-> [h |-> "mce", mce |-> m, rnd |-> FALSE],
            tc |-> StandardRun, cc |-> NoCapture, p |-> "", post |-> FALSE]] :
      g \in Graphs \cup {IsolatedGraph, CompleteGraph}, m \in mce_option_enum}
InitMce == \E run \in MceRuns : InitRun(run)
NextMce ==
  \/ RunPreprocessor
  \/ Iteration0
  \/ RunHeuristic
  \/ Terminate
  \/ EdgePick
  \/ EdgeDown
  \/ PostProcessing
SpecMce == InitMce /\ [][NextMce]_vars

\* ------------------------------------------------------------- tracePrint
TRACE_FREQ_THRESHOLD == 2
\* the values of -t and the layer arguments tracePrint is called with
\* (-1 at the start and at the end of a pass)
TraceFreqs == -1..(TRACE_FREQ_THRESHOLD + 2)
TraceLayers == {-1, 0, 1}

\* tracePrint(layer, message): whether trace_printer is called, and the
\* value of the static previous_print_iteration afterwards
tracePrint(layer) ==
  IF trace_freq > 0 /\ iteration % trace_freq = 0
     /\ iteration > previous_print_iteration
  THEN [printed |-> TRUE,
        previous |-> IF layer >= 0 THEN iteration
                     ELSE previous_print_iteration]
  ELSE IF trace_freq >= 0 /\ trace_freq <= TRACE_FREQ_THRESHOLD /\ layer < 0
  THEN [printed |-> TRUE, previous |-> previous_print_iteration]
  ELSE [printed |-> FALSE, previous |-> previous_print_iteration]

idleVars ==
  <<graphVars, master_node_list, orderVars, fixedVars, optVars, pass, clock,
    cached_crossings, bestVars, postVars, loc, ev, units, capture_log,
    pass_improved, true_returns, sgfVars>>

\* a call of tracePrint; lines counts the per-layer lines printed at the
\* current value of iteration
TracePrint ==
  /\ pc = "tracePrint"
  /\ \E layer \in TraceLayers :
       LET call == tracePrint(layer)
       IN /\ previous_print_iteration' = call.previous
          /\ trace_last' = [called |-> TRUE, layer |-> layer,
                            printed |-> call.printed,
                            lines |-> IF call.printed /\ layer >= 0
                                      THEN trace_last.lines + 1
                                      ELSE trace_last.lines]
  /\ UNCHANGED <<idleVars, iteration, pc, trace_freq, outVars>>

\* end_of_iteration between two calls: iteration++
TraceIteration ==
  /\ pc = "tracePrint"
  /\ iteration < MaxIteration
  /\ iteration' = iteration + 1
  /\ trace_last' = NoTrace
  /\ UNCHANGED <<idleVars, pc, trace_freq, previous_print_iteration, outVars>>

IdleRun ==
  [hc |-> [h |-> "", mce |-> "NODES", rnd |-> FALSE], tc |-> StandardRun,
   cc |-> NoCapture, p |-> "", post |-> FALSE]
InitTrace ==
  /\ InitGraph(IsolatedGraph)
  /\ InitMain(IdleRun)
  /\ pc = "tracePrint"
  /\ trace_freq \in TraceFreqs
  /\ previous_print_iteration = 0
  /\ trace_last = NoTrace
  /\ NoOutputFile
NextTrace == TracePrint \/ TraceIteration
SpecTrace == InitTrace /\ [][NextTrace]_vars

\* ------------------------------------------------------------- sgf loader
\* the positions an 'n' line may declare and the layers it may name
SgfPositions == {0, 1, 2, 5}
SgfLayers == {0, 1}
\* the id the k-th line of an input declares when it is an 'n' line
SgfId(k) == 10 - k
\* an id no 'n' line declares
UnknownId == 99
\* what getFromHashTable returns for a name that was never inserted
NoNode == -1

RECURSIVE SeqsUpTo(_, _)
SeqsUpTo(S, n) ==
  IF n = 0 THEN {<<>>}
  ELSE SeqsUpTo(S, n - 1)
       \cup {Append(q, x) : q \in {r \in SeqsUpTo(S, n - 1) : Len(r) = n - 1}, x \in S}

\* a line of an sgf file: the character it starts with and the numbers that
\* follow; "t_short", "n_short" and "e_short" are 't', 'n' and 'e' lines
\* with a field missing, "other" is a line starting with anything else
LineKinds ==
  {"c", "blank", "t", "n", "e", "t_short", "n_short", "e_short", "other"}
Line(kind) == [kind |-> kind, a |-> 0, b |-> 0, c |-> 0]
\* a 't' line that says the graph has num nodes
TLine(num) == [kind |-> "t", a |-> num, b |-> 0, c |-> 0]
NLine(id, layer, pos) == [kind |-> "n", a |-> id, b |-> layer, c |-> pos]
ELine(source, target) == [kind |-> "e", a |-> source, b |-> target, c |-> 0]
\* the character a line starts with ("" for an empty line)
FirstChar(line) ==
  CASE line.kind \in {"t", "t_short"} -> "t"
    [] line.kind \in {"n", "n_short"} -> "n"
    [] line.kind \in {"e", "e_short"} -> "e"
    [] line.kind = "c" -> "c"
    [] OTHER -> ""
\* is_blank( local_buffer )
is_blank(line) == line.kind = "blank"

\* inputs made of a 't' line and 'n' lines of any layer and position
SgfNodeInputs ==
  {<<Line("t")>> \o [k \in 1..Len(q) |-> NLine(SgfId(k), q[k].layer, q[k].position)] :
     q \in {r \in SeqsUpTo([layer : SgfLayers, position : SgfPositions],
                           MaxSgfNodes) : Len(r) >= 1}}

\* the text of a sequence of line kinds: the n-th 'n' line puts a node at
\* position n of layer n % 2, an 'e' line joins the nodes of the first two
\* 'n' lines of the text
LinesOf(q) ==
  [k \in 1..Len(q) |->
      LET ns == {i \in 1..Len(q) : q[i] = "n"}
          before == Cardinality({i \in ns : i < k})
          first == IF ns = {} THEN 0 ELSE MinOf(ns)
          second == IF Cardinality(ns) < 2 THEN 0 ELSE MinOf(ns \ {first})
      IN CASE q[k] = "n" -> NLine(SgfId(k), before % 2, before)
           [] q[k] = "e" -> ELine(IF first = 0 THEN UnknownId ELSE SgfId(first),
                                  IF second = 0 THEN UnknownId ELSE SgfId(second))
           [] OTHER -> Line(q[k])]

\* inputs made of lines of every kind in every order, and the inputs that
\* have a line of any kind after a 't' line, two 'n' lines and an 'e' line
SgfLineInputs ==
  {LinesOf(q) : q \in SeqsUpTo(LineKinds, MaxSgfLines)}
  \cup {LinesOf(<<"t", "n", "n", "e", kind>>) : kind \in LineKinds}

\* inputs with two nodes on layer 0, one on layer 1 and one on layer 2,
\* followed by 'e' lines between any two ids, known or not
SgfEdgeInputs ==
  LET ids == {SgfId(2), SgfId(3), SgfId(4), SgfId(5), UnknownId}
  IN {<<Line("t"), NLine(SgfId(2), 0, 0), NLine(SgfId(3), 0, 1),
        NLine(SgfId(4), 1, 0), NLine(SgfId(5), 2, 0)>>
        \o [k \in 1..Len(q) |-> ELine(q[k][1], q[k][2])] :
      q \in SeqsUpTo(ids \X ids, MaxSgfEdges)}

\* the text with every 't' line saying the number of 'n' lines of the text
\* less missing
WithTagLine(text, missing) ==
  LET said == Cardinality({i \in DOMAIN text : text[i].kind = "n"}) - missing
  IN [k \in DOMAIN text |-> IF text[k].kind = "t" THEN TLine(said) ELSE text[k]]

\* the inputs readSgf is run on, by family: the 't' line says how many
\* nodes there are, or, in the family "nodes_short", one node less
SgfFamilies == {"nodes", "nodes_short", "lines", "edges"}
SgfInputs(family) ==
  CASE family = "nodes" -> {WithTagLine(text, 0) : text \in SgfNodeInputs}
    [] family = "nodes_short" -> {WithTagLine(text, 1) : text \in SgfNodeInputs}
    [] family = "lines" -> {WithTagLine(text, 0) : text \in SgfLineInputs}
    [] family = "edges" -> {WithTagLine(text, 0) : text \in SgfEdgeInputs}

\* a new record whose field shares the storage of the earlier ones
ExtendedShared(f, k, v) == [n \in 0..k |-> v]
\* the fields of the nodes after node k has been made with value v
Extended(f, k, v) == [n \in 0..k |-> IF n = k THEN v ELSE f[n]]

\* the state of a fresh process when readSgf is entered with the input text
FreshLoad(text) ==
  /\ sgf_input = text
  /\ sgf_text = text
  /\ sgf_state = "header"
  /\ number_of_layers = 0
  /\ node_id = <<>> /\ node_name = <<>>
  /\ node_layer = <<>> /\ position = <<>>
  /\ node_fixed = <<>> /\ edge_fixed = <<>> /\ layer_fixed = <<>>
  /\ master_node_list = <<>> /\ master_edge_list = <<>>
  /\ up_edges = <<>> /\ down_edges = <<>>
  /\ up_degree = <<>> /\ down_degree = <<>>
  /\ layers = <<>>

\* the state when readSgf is entered
InitSgf ==
  /\ \E family \in SgfFamilies : \E text \in SgfInputs(family) : FreshLoad(text)
  /\ ord_input = <<>> /\ dot_input = <<>> /\ written = <<>>
  /\ heuristic = "" /\ preprocessor = "" /\ mce_option = "NODES"
  /\ randomize_order = FALSE /\ do_post_processing = FALSE
  /\ sift_option = "DEGREE"
  /\ QuietTrace /\ NoOutputFile
  /\ max_iterations = INT_MAX /\ max_runtime = DBL_MAX /\ max_passes = INT_MAX
  /\ standard_termination = TRUE
  /\ capture_iteration = INT_MIN /\ write_files = FALSE
  /\ iteration = 0 /\ pass = 0 /\ clock = 0
  /\ cached_crossings = [total |-> 0, bottleneck |-> 0]
  /\ stats = InitialStats
  /\ best_crossings_order = <<>>
  /\ best_edge_crossings_order = <<>>
  /\ best_total_stretch_order = <<>>
  /\ best_bottleneck_stretch_order = <<>>
  /\ post_processing_crossings = INT_MAX
  /\ post_processing_iteration = 0
  /\ pc = "readSgf"
  /\ loc = NoLocals
  /\ ev = NoEvent
  /\ units = 0
  /\ capture_log = {}
  /\ pass_improved = FALSE
  /\ true_returns = 0

engineVars ==
  <<layer_fixed, optVars, traceVars, outVars, iteration, pass, clock,
    cached_crossings, bestVars, postVars, pc, ev, units, capture_log,
    pass_improved, true_returns>>
nodeVars == <<number_of_layers, node_id, node_name, node_layer, position, node_fixed,
              master_node_list>>
edgeVars == <<master_edge_list, edge_fixed, adjVars>>

\* initSgf: one round of the loop that reads up to the 't' line, and the
\* reading of the 't' line
ReadSgfHeader ==
  /\ sgf_state = "header"
  /\ IF sgf_input = <<>>
     THEN sgf_state' = "fatal_line" /\ UNCHANGED sgf_input
     ELSE LET line == Head(sgf_input)
          IN /\ sgf_input' = Tail(sgf_input)
             /\ sgf_state' =
                  IF FirstChar(line) = "t"
                  THEN IF line.kind = "t" THEN "nodes" ELSE "fatal_line"
                  ELSE IF is_blank(line) THEN "header"
                  ELSE IF FirstChar(line) # "c" THEN "fatal_line"
                  ELSE "header"
  /\ UNCHANGED <<nodeVars, edgeVars, layers, loc, engineVars, sgf_text,
                 ord_input, dot_input, written>>

\* num_nodes: the number of nodes the 't' line read by initSgf says
num_nodes ==
  sgf_text[MinOf({i \in DOMAIN sgf_text : FirstChar(sgf_text[i]) = "t"})].a

\* what storing entry index of an array of size entries can do when the
\* array is enlarged only once index > size
StoreOutcomes(index, size) ==
  IF index = size THEN {"stored", "crash"} ELSE {"stored"}

\* readSgfNodes: one round of the loop, with makeNumberedNode and
\* addToNodeList for an 'n' line; the loop is left at the end of the input
\* and at a line that starts with 'e', which is left to readSgfEdges.
\* The master node list has num_nodes entries and is enlarged only when
\* number_of_nodes > num_nodes, so the node read when number_of_nodes =
\* num_nodes is stored one entry past the end of the list: the run goes on
\* as if the entry were there, or it crashes
ReadSgfNode ==
  /\ sgf_state = "nodes"
  /\ IF sgf_input = <<>> \/ FirstChar(Head(sgf_input)) = "e"
     THEN /\ sgf_state' = "edges"
          /\ UNCHANGED <<sgf_input, nodeVars>>
     ELSE LET line == Head(sgf_input)
              k == number_of_nodes
          IN /\ sgf_input' = Tail(sgf_input)
             /\ IF is_blank(line)
                THEN UNCHANGED <<sgf_state, nodeVars>>
                ELSE IF line.kind # "n"
                THEN sgf_state' = "fatal_line" /\ UNCHANGED nodeVars
                ELSE \E outcome \in StoreOutcomes(k, num_nodes) :
                     IF outcome = "crash"
                     THEN sgf_state' = "crash" /\ UNCHANGED nodeVars
                     ELSE /\ number_of_layers' = IF line.b >= number_of_layers
                                                 THEN line.b + 1 ELSE number_of_layers
                          /\ node_id' = Extended(node_id, k, line.a)
                          /\ node_name' = Extended(node_name, k, line.a)
                          /\ node_layer' = Extended(node_layer, k, line.b)
                          /\ position' = Extended(position, k, line.c)
                          /\ node_fixed' = Extended(node_fixed, k, FALSE)
                          /\ master_node_list' = Append(master_node_list, k)
                          /\ UNCHANGED sgf_state
  /\ up_edges' = [n \in DOMAIN node_id' |-> <<>>]
  /\ down_edges' = [n \in DOMAIN node_id' |-> <<>>]
  /\ up_degree' = [n \in DOMAIN node_id' |-> 0]
  /\ down_degree' = [n \in DOMAIN node_id' |-> 0]
  /\ UNCHANGED <<master_edge_list, edge_fixed, layers, loc, engineVars,
                 sgf_text, ord_input, dot_input, written>>

\* getFromHashTable( name ): the node entered under the name, NoNode if
\* there is none; for sgf input the name of a node is its id as text
getFromHashTable(name) ==
  IF \E n \in DOMAIN node_name : node_name[n] = name
  THEN CHOOSE n \in DOMAIN node_name : node_name[n] = name
  ELSE NoNode

\* addEdge without the test for adjacent layers
addEdgeFatalSameLayerOnly(node1, node2) ==
  \/ node1 = NoNode
  \/ node2 = NoNode
  \/ node_layer[node1] = node_layer[node2]
\* addEdge: the fatal errors
addEdgeFatal(node1, node2) ==
  \/ node1 = NoNode
  \/ node2 = NoNode
  \/ node_layer[node1] = node_layer[node2]
  \/ Abs(node_layer[node1] - node_layer[node2]) # 1
\* the upper endpoint taken to be the target, as edges are usually written
TargetAsUpper(node1, node2) == node2
\* addEdge: the endpoints of the new edge
upper_node(node1, node2) ==
  IF node_layer[node1] > node_layer[node2] THEN node1 ELSE node2
lower_node(node1, node2) ==
  IF node_layer[node1] < node_layer[node2] THEN node1 ELSE node2
\* an adjacency array after realloc to degree + 1 entries and the
\* assignment of the new edge to entry degree
WithEdge(edges, degree, edge) == SubSeq(edges, 1, degree) \o <<edge>>
\* addEdge when no fatal error occurs: the edge is put at the end of the
\* master edge list and into the adjacency arrays of its endpoints
addEdge(node1, node2) ==
  LET upper == upper_node(node1, node2)
      lower == lower_node(node1, node2)
      new_edge == Len(master_edge_list) + 1
  IN /\ master_edge_list' = Append(master_edge_list, E(lower, upper))
     /\ edge_fixed' = Append(edge_fixed, FALSE)
     /\ down_edges' = [down_edges EXCEPT
                         ![upper] = WithEdge(@, down_degree[upper], new_edge)]
     /\ up_edges' = [up_edges EXCEPT
                       ![lower] = WithEdge(@, up_degree[lower], new_edge)]
     /\ down_degree' = [down_degree EXCEPT ![upper] = @ + 1]
     /\ up_degree' = [up_degree EXCEPT ![lower] = @ + 1]

\* readSgfEdges: one round of the loop, with addEdge for an 'e' line
ReadSgfEdge ==
  /\ sgf_state = "edges"
  /\ sgf_input # <<>>
  /\ LET line == Head(sgf_input)
         node1 == getFromHashTable(line.a)
         node2 == getFromHashTable(line.b)
     IN /\ sgf_input' = Tail(sgf_input)
        /\ IF is_blank(line)
           THEN UNCHANGED <<sgf_state, edgeVars>>
           ELSE IF line.kind # "e"
           THEN sgf_state' = "fatal_line" /\ UNCHANGED edgeVars
           ELSE IF addEdgeFatal(node1, node2)
           THEN sgf_state' = "fatal_edge" /\ UNCHANGED edgeVars
           ELSE addEdge(node1, node2) /\ UNCHANGED sgf_state
  /\ UNCHANGED <<nodeVars, layers, loc, engineVars, sgf_text, ord_input,
                 dot_input, written>>

\* allocateLayers and the first half of addNodesToLayers: every layer gets
\* its array, nothing is in it yet
AllocateLayers ==
  /\ sgf_state = "edges"
  /\ sgf_input = <<>>
  /\ layers' = [l \in LayerIds |-> <<>>]
  /\ layer_fixed' = [l \in LayerIds |-> FALSE]
  /\ loc' = [loc EXCEPT !.index = 0]
  /\ sgf_state' = IF number_of_nodes = 0 THEN "loaded" ELSE "inserting"
  /\ UNCHANGED <<graphVars, master_node_list, position, node_fixed, edge_fixed,
                 sgf_input, sgf_text, ord_input, dot_input, written,
                 optVars, traceVars, outVars, iteration, pass, clock, cached_crossings, bestVars,
                 postVars, pc, ev, units, capture_log, pass_improved,
                 true_returns>>

\* the loop of insertIntoLayer stopping at the first node that is not larger
RECURSIVE InsertSlotStrict(_, _, _)
InsertSlotStrict(arr, node, current_position) ==
  IF current_position > 0
     /\ position[arr[current_position]] > position[node]
  THEN InsertSlotStrict(arr, node, current_position - 1)
  ELSE current_position

\* insertIntoLayer: the slot the node goes to, found from the end of the
\* nodes put on the layer so far; -1 when a node of equal position is met
RECURSIVE InsertSlot(_, _, _)
InsertSlot(arr, node, current_position) ==
  IF current_position > 0
     /\ position[arr[current_position]] >= position[node]
  THEN IF position[arr[current_position]] = position[node] THEN -1
       ELSE InsertSlot(arr, node, current_position - 1)
  ELSE current_position

\* the array after insertIntoLayer has put node into slot p: the nodes from
\* p on are moved up by one and no position field is written
insertIntoLayer(arr, node, p) ==
  [i \in 1..(Len(arr) + 1) |->
     IF i < p + 1 THEN arr[i] ELSE IF i = p + 1 THEN node ELSE arr[i - 1]]

\* the second loop of addNodesToLayers: one node
InsertNode ==
  /\ sgf_state = "inserting"
  /\ loc.index < number_of_nodes
  /\ LET node == master_node_list[loc.index + 1]
         arr == layers[node_layer[node]]
         p == InsertSlot(arr, node, Len(arr))
     IN IF p = -1
        THEN /\ sgf_state' = "fatal_position"
             /\ UNCHANGED <<layers, loc>>
        ELSE /\ layers' = [layers EXCEPT ![node_layer[node]] =
                             insertIntoLayer(arr, node, p)]
             /\ loc' = [loc EXCEPT !.index = loc.index + 1]
             /\ sgf_state' = IF loc.index + 1 = number_of_nodes
                             THEN "loaded" ELSE "inserting"
  /\ UNCHANGED <<graphVars, master_node_list, position, node_fixed, edge_fixed,
                 sgf_input, sgf_text, ord_input, dot_input, written,
                 engineVars>>

\* writeSgf with the position of a node written before its layer
writeSgfPositionFirst ==
  <<TLine(number_of_nodes)>>
  \o [i \in 1..Len(master_node_list) |->
        NLine(node_id[master_node_list[i]], position[master_node_list[i]],
              node_layer[master_node_list[i]])]
  \o [e \in 1..Len(master_edge_list) |->
        ELine(node_id[master_edge_list[e].down_node],
              node_id[master_edge_list[e].up_node])]
\* writeSgf: the 't' line, an 'n' line for every node in the order of the
\* master node list, an 'e' line for every edge in the order of the master
\* edge list, written as down-node id, up-node id
writeSgf ==
  <<TLine(number_of_nodes)>>
  \o [i \in 1..Len(master_node_list) |->
        NLine(node_id[master_node_list[i]], node_layer[master_node_list[i]],
              position[master_node_list[i]])]
  \o [e \in 1..Len(master_edge_list) |->
        ELine(node_id[master_edge_list[e].down_node],
              node_id[master_edge_list[e].up_node])]

\* the graph in memory as a reader of the ids sees it: the ids, the layer
\* and the position of the node of each id, and how many edges there are
\* between each pair of a down-node id and an up-node id
GraphById ==
  LET ids == {node_id[n] : n \in DOMAIN node_id}
      node(i) == CHOOSE n \in DOMAIN node_id : node_id[n] = i
      pair(e) == <<node_id[master_edge_list[e].down_node],
                   node_id[master_edge_list[e].up_node]>>
      edges == 1..Len(master_edge_list)
  IN [ids |-> ids,
      layer |-> [i \in ids |-> node_layer[node(i)]],
      position |-> [i \in ids |-> position[node(i)]],
      edges |-> [p \in {pair(e) : e \in edges} |->
                   Cardinality({e \in edges : pair(e) = p})]]

\* the loaded graph is written with writeSgf and a fresh process is started
\* on the text
WriteSgf ==
  /\ sgf_state = "loaded"
  /\ written = <<>>
  /\ written' = [graph |-> GraphById, invariant |-> LayerInvariantOf(layers, position)]
  /\ sgf_input' = writeSgf
  /\ sgf_text' = writeSgf
  /\ sgf_state' = "header"
  /\ number_of_layers' = 0
  /\ node_id' = <<>> /\ node_name' = <<>>
  /\ node_layer' = <<>> /\ position' = <<>>
  /\ node_fixed' = <<>> /\ edge_fixed' = <<>>
  /\ master_node_list' = <<>> /\ master_edge_list' = <<>>
  /\ up_edges' = <<>> /\ down_edges' = <<>>
  /\ up_degree' = <<>> /\ down_degree' = <<>>
  /\ layers' = <<>>
  /\ UNCHANGED <<loc, engineVars, ord_input, dot_input>>

NextSgf ==
  \/ ReadSgfHeader
  \/ ReadSgfNode
  \/ ReadSgfEdge
  \/ AllocateLayers
  \/ InsertNode
  \/ WriteSgf

SpecSgf == InitSgf /\ [][NextSgf]_vars

\* ------------------------------------------------------------- dot and ord loader
\* an ord file is the list of its layers, each with the number it declares
\* and the names of its nodes; a dot file is the list of its edges, each a
\* pair of names in the direction it is written
OrdLayer(number, names) == [layer |-> number, nodes |-> names]
OrdInputs ==
  { <<OrdLayer(0, <<"a", "b">>), OrdLayer(1, <<"c">>), OrdLayer(2, <<"d">>)>>,
    <<OrdLayer(0, <<"a">>), OrdLayer(1, <<"c", "b">>)>>,
    <<OrdLayer(0, <<"a">>), OrdLayer(2, <<"b">>)>> }
DotNames == {"a", "b", "c", "d", "z"}
DotInputs == SeqsUpTo(DotNames \X DotNames, MaxDotEdges)
\* an entry of an array that calloc has cleared
Null == 0

\* the nodes of the ord file in the order nextNode returns them
RECURSIVE OrdNodesOf(_)
OrdNodesOf(ord) ==
  IF ord = <<>> THEN <<>>
  ELSE [i \in 1..Len(Head(ord).nodes) |->
          [layer |-> Head(ord).layer, name |-> Head(ord).nodes[i]]]
       \o OrdNodesOf(Tail(ord))
OrdNodes == OrdNodesOf(ord_input)

\* the state when readDotAndOrd is entered
InitDotOrd ==
  /\ ord_input \in OrdInputs
  /\ dot_input \in DotInputs
  /\ sgf_input = <<>> /\ sgf_text = <<>> /\ sgf_state = "none" /\ written = <<>>
  /\ number_of_layers = 0
  /\ node_id = <<>> /\ node_name = <<>>
  /\ node_layer = <<>> /\ position = <<>>
  /\ node_fixed = <<>> /\ edge_fixed = <<>> /\ layer_fixed = <<>>
  /\ master_node_list = <<>> /\ master_edge_list = <<>>
  /\ up_edges = <<>> /\ down_edges = <<>>
  /\ up_degree = <<>> /\ down_degree = <<>>
  /\ layers = <<>>
  /\ heuristic = "" /\ preprocessor = "" /\ mce_option = "NODES"
  /\ randomize_order = FALSE /\ do_post_processing = FALSE
  /\ sift_option = "DEGREE"
  /\ QuietTrace /\ NoOutputFile
  /\ max_iterations = INT_MAX /\ max_runtime = DBL_MAX /\ max_passes = INT_MAX
  /\ standard_termination = TRUE
  /\ capture_iteration = INT_MIN /\ write_files = FALSE
  /\ iteration = 0 /\ pass = 0 /\ clock = 0
  /\ cached_crossings = [total |-> 0, bottleneck |-> 0]
  /\ stats = InitialStats
  /\ best_crossings_order = <<>>
  /\ best_edge_crossings_order = <<>>
  /\ best_total_stretch_order = <<>>
  /\ best_bottleneck_stretch_order = <<>>
  /\ post_processing_crossings = INT_MAX
  /\ post_processing_iteration = 0
  /\ pc = "allocateLayersFromOrdFile"
  /\ loc = NoLocals
  /\ ev = NoEvent
  /\ units = 0
  /\ capture_log = {}
  /\ pass_improved = FALSE
  /\ true_returns = 0

runVars ==
  <<optVars, traceVars, outVars, iteration, pass, clock, cached_crossings, bestVars, postVars, ev,
    units, capture_log, pass_improved, true_returns, sgfVars>>

\* allocateLayersFromOrdFile: the first pass over the ord file makes the
\* layers, which must be numbered 0, 1, 2, ... in the file, and counts the
\* nodes; readDotAndOrd then allocates the master node list
AllocateLayersFromOrdFile ==
  /\ pc = "allocateLayersFromOrdFile"
  /\ IF \E k \in 1..Len(ord_input) : ord_input[k].layer # k - 1
     THEN /\ pc' = "fatal"
          /\ UNCHANGED <<number_of_layers, layers, layer_fixed, master_node_list, loc>>
     ELSE /\ number_of_layers' = Len(ord_input)
          /\ layers' = [l \in 0..(Len(ord_input) - 1) |->
                          [i \in 1..Len(ord_input[l + 1].nodes) |-> Null]]
          /\ layer_fixed' = [l \in 0..(Len(ord_input) - 1) |-> FALSE]
          /\ master_node_list' =
               [i \in 1..Len(OrdNodes) |-> NoNode]
          /\ loc' = [loc EXCEPT !.layer = 0, !.index = 0, !.i = 0]
          /\ pc' = IF OrdNodes = <<>> THEN "allocateAdjacencyLists"
                   ELSE "assignNodesToLayers"
  /\ UNCHANGED <<node_id, node_name, node_layer, position, node_fixed,
                 edgeVars, runVars>>

\* assignNodesToLayers: one node of the second pass over the ord file, with
\* makeNode and addNodeToLayer; loc.layer and loc.index are the static
\* current_layer and current_position of addNodeToLayer
AssignNode ==
  /\ pc = "assignNodesToLayers"
  /\ LET entry == OrdNodes[loc.i + 1]
         current_id == Cardinality(DOMAIN node_id)
         current_position == IF entry.layer # loc.layer THEN 0 ELSE loc.index
     IN /\ node_id' = Extended(node_id, current_id, current_id)
        /\ node_name' = Extended(node_name, current_id, entry.name)
        /\ node_layer' = Extended(node_layer, current_id, entry.layer)
        /\ position' = Extended(position, current_id, current_position)
        /\ node_fixed' = Extended(node_fixed, current_id, FALSE)
        /\ up_degree' = Extended(up_degree, current_id, 0)
        /\ down_degree' = Extended(down_degree, current_id, 0)
        /\ up_edges' = Extended(up_edges, current_id, <<>>)
        /\ down_edges' = Extended(down_edges, current_id, <<>>)
        /\ master_node_list' =
             [master_node_list EXCEPT ![current_id + 1] = current_id]
        /\ layers' = [layers EXCEPT
                        ![entry.layer][current_position + 1] = current_id]
        /\ loc' = [loc EXCEPT !.layer = entry.layer,
                              !.index = current_position + 1,
                              !.i = IF loc.i + 1 = Len(OrdNodes) THEN 0 ELSE @ + 1]
        /\ pc' = IF loc.i + 1 = Len(OrdNodes) THEN "allocateAdjacencyLists"
                 ELSE "assignNodesToLayers"
  /\ UNCHANGED <<number_of_layers, master_edge_list, edge_fixed, layer_fixed,
                 runVars>>

\* allocateAdjacencyLists: one edge of the first pass over the dot file,
\* with incrementDegrees
IncrementDegrees ==
  /\ pc = "allocateAdjacencyLists"
  /\ loc.i < Len(dot_input)
  /\ LET node1 == getFromHashTable(dot_input[loc.i + 1][1])
         node2 == getFromHashTable(dot_input[loc.i + 1][2])
     IN IF node1 = NoNode \/ node2 = NoNode
        THEN pc' = "fatal" /\ UNCHANGED <<up_degree, down_degree, loc>>
        ELSE /\ down_degree' = [down_degree EXCEPT ![upper_node(node1, node2)] = @ + 1]
             /\ up_degree' = [up_degree EXCEPT ![lower_node(node1, node2)] = @ + 1]
             /\ loc' = [loc EXCEPT !.i = @ + 1]
             /\ UNCHANGED pc
  /\ UNCHANGED <<nodeVars, layers, master_edge_list, edge_fixed, up_edges,
                 down_edges, layer_fixed, runVars>>

\* allocateAdjacencyLists after its loop: every node gets adjacency arrays
\* of the size of its degrees and its degrees are set back to 0
AllocateAdjacencyLists ==
  /\ pc = "allocateAdjacencyLists"
  /\ loc.i = Len(dot_input)
  /\ up_edges' = [n \in DOMAIN node_id |-> [j \in 1..up_degree[n] |-> Null]]
  /\ down_edges' = [n \in DOMAIN node_id |-> [j \in 1..down_degree[n] |-> Null]]
  /\ up_degree' = [n \in DOMAIN node_id |-> 0]
  /\ down_degree' = [n \in DOMAIN node_id |-> 0]
  /\ loc' = [loc EXCEPT !.i = 0]
  /\ pc' = IF dot_input = <<>> THEN "loaded" ELSE "createEdges"
  /\ UNCHANGED <<nodeVars, layers, master_edge_list, edge_fixed, layer_fixed,
                 runVars>>

\* createEdges: one edge of the second pass over the dot file, with addEdge
CreateEdge ==
  /\ pc = "createEdges"
  /\ LET node1 == getFromHashTable(dot_input[loc.i + 1][1])
         node2 == getFromHashTable(dot_input[loc.i + 1][2])
     IN IF addEdgeFatal(node1, node2)
        THEN pc' = "fatal" /\ UNCHANGED <<edgeVars, loc>>
        ELSE /\ addEdge(node1, node2)
             /\ loc' = [loc EXCEPT !.i = @ + 1]
             /\ pc' = IF loc.i + 1 = Len(dot_input) THEN "loaded"
                      ELSE "createEdges"
  /\ UNCHANGED <<nodeVars, layers, layer_fixed, runVars>>

NextDotOrd ==
  \/ AllocateLayersFromOrdFile
  \/ AssignNode
  \/ IncrementDegrees
  \/ AllocateAdjacencyLists
  \/ CreateEdge

\* both loaders: a run is a load by readSgf or a load by readDotAndOrd
InitLoad == InitSgf \/ InitDotOrd
NextLoad == NextSgf \/ NextDotOrd
SpecLoad == InitLoad /\ [][NextLoad]_vars

\* ------------------------------------------------------------- writeFile
\* every ordering of graph g: each layer in any order
Orderings(g) ==
  {lays \in [0..(g.nl - 1) -> UNION {Permutations_(Range(InputOrder(g)[l])) :
                                        l \in 0..(g.nl - 1)}] :
     \A l \in 0..(g.nl - 1) : Range(lays[l]) = Range(InputOrder(g)[l])}

\* fclose( stream ): closing a stream that is not open is undefined; the
\* call may pass unnoticed or end the run
fclose(stream) ==
  IF stream.state = "open"
  THEN {[stream EXCEPT !.state = "closed", !.fclose_calls = @ + 1]}
  ELSE {[stream EXCEPT !.state = s, !.fclose_calls = @ + 1] :
          s \in {"closed", "crash"}}

\* what writeOrd prints: for every layer the names of its nodes in order
OrdText == [l \in LayerIds |-> [i \in 1..Len(layers[l]) |-> node_name[layers[l][i]]]]

writeVars == <<idleVars, iteration, traceVars, write_sgf_output, write_ord_output>>

\* writeFile up to fopen: the extension is chosen from the two flags and
\* stays NULL if neither is set, which createOutputFileName passes to
\* strcat (undefined: the run may end there); fopen may fail
WriteFileOpen ==
  /\ pc = "writeFile"
  /\ \E outcome \in (IF write_sgf_output \/ write_ord_output
                      THEN {"open", "no_file"} ELSE {"open", "no_file", "crash"}) :
       /\ out_stream' = [NoStream EXCEPT !.state = outcome]
       /\ pc' = CASE outcome = "crash" -> "crash"
                  [] outcome = "no_file" -> "exit_failure"
                  [] write_sgf_output -> "writeSgf"
                  [] write_ord_output -> "writeOrd"
                  [] OTHER -> "fclose"
  /\ UNCHANGED writeVars

\* if ( write_sgf_output ) writeSgf(out_stream);
WriteFileSgf ==
  /\ pc = "writeSgf"
  /\ out_stream' = [out_stream EXCEPT !.text = writeSgf]
  /\ pc' = "fclose"
  /\ UNCHANGED writeVars

\* else if ( write_ord_output ) writeOrd(out_stream); writeOrd ends with
\* fclose( out )
WriteFileOrd ==
  /\ pc = "writeOrd"
  /\ out_stream' \in fclose([out_stream EXCEPT !.text = OrdText])
  /\ pc' = "fclose"
  /\ UNCHANGED writeVars

\* fclose(out_stream) at the end of writeFile
WriteFileClose ==
  /\ pc = "fclose"
  /\ out_stream' \in fclose(out_stream)
  /\ pc' = IF out_stream'.state = "crash" THEN "crash" ELSE "written"
  /\ UNCHANGED writeVars

InitWrite ==
  /\ \E g \in Graphs : \E lays \in Orderings(g) : InitGraphAt(g, lays)
  /\ InitMain(IdleRun)
  /\ pc = "writeFile"
  /\ QuietTrace
  /\ write_sgf_output \in BOOLEAN
  /\ write_ord_output \in BOOLEAN
  /\ out_stream = NoStream
NextWrite == WriteFileOpen \/ WriteFileSgf \/ WriteFileOrd \/ WriteFileClose
SpecWrite == InitWrite /\ [][NextWrite]_vars


\* a graph has been loaded
Loaded == sgf_state = "loaded" \/ pc = "loaded"

\* ------------------------------------------------------------- properties
LayerInvariant == LayerInvariantOf(layers, position)

\* C1: the layer invariant (positions agree with slots, layer fields agree
\* with layers) holds at every call of end_of_iteration, after every
\* exchange made by swap_nodes, and when middleDegreeSort returns
C1_LayerInvariantKept ==
  (ev.eoi \/ ev.swap = "swapped" \/ ev.returned = "mds") => LayerInvariant
\* swapping has just exchanged two nodes of an ordering that
\* middleDegreeSort prepared
C1_Witness == ev.swap = "swapped" /\ preprocessor = "mds"

\* the nodes of every layer stand in ascending order of their positions
SortedByPosition ==
  \A l \in LayerIds : \A i \in 1..(Len(layers[l]) - 1) :
     position[layers[l][i]] < position[layers[l][i + 1]]

\* C2: after readSgf has succeeded every layer is sorted by ascending
\* declared position and every node's position is its slot
C2_LoadedPositionsAreSlots ==
  sgf_state = "loaded" => (SortedByPosition /\ LayerInvariant)

\* C3: the recorded best value of every tracked objective never increases,
\* across the calls of end_of_iteration and the update_best_all calls of
\* swapping
C3_BestNeverIncreases ==
  [][\A o \in Objectives : stats'[o].best <= stats[o].best]_vars
\* swapping has just recorded an ordering after the heuristic had found a
\* new best after iteration 0
C3_Witness == ev.saved /\ stats["total_crossings"].iter > 0

\* C4: after iteration 0 the ordering stored in best_crossings_order has a
\* true crossing count equal to the recorded best total crossings
C4_SnapshotMatchesBest ==
  iteration >= 1 =>
    CountCrossings(SlotPosition(best_crossings_order))
      = stats["total_crossings"].best

\* C5: end_of_iteration returns true exactly when the iteration counter at
\* entry is >= max_iterations or the run time is >= max_runtime; it adds one
\* to iteration, and no other step changes iteration
C5_EndOfIterationResult ==
  [][IF ev'.eoi
     THEN /\ iteration' = iteration + 1
          /\ ev'.done = (iteration >= max_iterations \/ clock' >= max_runtime)
     ELSE iteration' = iteration]_vars
\* a call that returned true because the counter had reached a limit given
\* with -i, after calls that returned false
C5_Witness ==
  ev.eoi /\ ev.done /\ ev.iteration = max_iterations /\ ev.iteration >= 2

\* C6: once a call of end_of_iteration has returned true, every later call
\* returns true as well
C6_TerminationIsIdempotent == (ev.eoi /\ ~ ev.done) => true_returns = 0
\* a call returned true after an earlier call had
C6_Witness == ev.eoi /\ ev.done /\ true_returns >= 2

C8_AtMostMaxIterationsUnits ==
  max_iterations # INT_MAX => units <= max_iterations
\* a heuristic has returned after exactly N >= 2 units of work
C8_Witness ==
  /\ pc = "after_heuristic"
  /\ units = max_iterations
  /\ units >= 2

\* C9: the check at the end of a pass stops the heuristic whenever the run
\* time has reached max_runtime
C9_EndOfPassStopsAtRuntime ==
  (ev.term # "none" /\ ev.after_pass /\ clock >= max_runtime)
     => ev.term = "true"

\* C10: in standard termination mode a heuristic stops at an end-of-pass
\* check exactly when no tracked objective improved during the pass just
\* finished; with -i or -r it never stops merely for lack of improvement
C10_StopsExactlyWhenNoImprovement ==
  (ev.term # "none" /\ ev.after_pass) =>
     IF standard_termination
     THEN (ev.term = "true") = (~ ev.improved)
     ELSE ev.term = "true" => (iteration >= max_iterations \/ pass >= max_passes)

\* a call of end_of_iteration made by the heuristic (a call after the one
\* main makes for iteration 0) has returned true; once a call has returned
\* true every later one does, so the call of main returned true exactly
\* when every call so far did
HeuristicSawTrue ==
  true_returns >= 2 \/ (true_returns >= 1 /\ true_returns < iteration)

\* C11: once a call of end_of_iteration made by the heuristic has returned
\* true, no further node is sifted and no further layer is sorted
C11_NoWorkAfterTrue == [][HeuristicSawTrue => units' = units]_vars

\* the reduction of the number of crossings that an exchange of the nodes at
\* slots i and i + 1 of layer l would bring
SwapGain(l, i) ==
  node_crossings(position, layers[l][i + 1], layers[l][i + 2])
    - node_crossings(position, layers[l][i + 2], layers[l][i + 1])

\* swapping() has returned
SwappingReturned == pc = "exit" /\ do_post_processing

\* C12: when swapping() returns, no exchange of two neighbouring nodes, on
\* any layer and at any slot, would reduce the number of crossings
C12_NoImprovingSwapLeft ==
  SwappingReturned =>
    \A l \in LayerIds : \A i \in 0..(Len(layers[l]) - 2) : SwapGain(l, i) <= 0

\* control is inside swapping() or swapping() has returned
InSwapping == pc \in {"swap", "swap_end"} \/ SwappingReturned

\* C13: swapping_iteration exchanges an examined pair exactly when the
\* exchange reduces the number of crossings and lowers the running counter
\* by that reduction, so that post_processing_crossings is the true
\* number of crossings of the current ordering all through swapping()
C13_SwapCounterIsExact ==
  [][/\ pc = "swap" =>
          LET gain == SwapGain(loc.layer, loc.i)
          IN /\ (ev'.swap = "swapped") = (gain > 0)
             /\ (layers' # layers) = (gain > 0)
             /\ post_processing_crossings' =
                  post_processing_crossings - (IF gain > 0 THEN gain ELSE 0)
     /\ InSwapping' =>
          post_processing_crossings' = CountCrossings(position')]_vars
\* an exchange made in an odd swapping iteration, after an improving even one
C13_Witness ==
  /\ ev.swap = "swapped" /\ loc.odd_even = 1
  /\ post_processing_crossings < loc.previous_best_crossings
  /\ loc.previous_best_crossings < stats["total_crossings"].best

\* the 'n' lines of an sgf text, in their order
NLines(text) == SelectSeq(text, LAMBDA line : line.kind = "n")

\* C14 as stated: after a load, by either loader, every node's id is its
\* 0-based index in the master node list
C14_IdIsIndex ==
  Loaded => \A i \in 1..Len(master_node_list) : node_id[master_node_list[i]] = i - 1
\* C14: after readDotAndOrd every node's id is its 0-based index in the
\* master node list; after readSgf the master node list holds the nodes in
\* the order of their 'n' lines and every node's id is the id its 'n' line
\* declares
C14_IdIsIndexOrDeclared ==
  /\ pc = "loaded" =>
       \A i \in 1..Len(master_node_list) : node_id[master_node_list[i]] = i - 1
  /\ (sgf_state = "loaded" /\ pc = "readSgf") =>
       /\ Len(master_node_list) = Len(NLines(sgf_text))
       /\ \A i \in 1..Len(master_node_list) :
            node_id[master_node_list[i]] = NLines(sgf_text)[i].a
\* an sgf input of three nodes is loaded and no id is the index of its node
C14_Witness ==
  /\ sgf_state = "loaded" /\ pc = "readSgf" /\ Len(master_node_list) = 3
  /\ \A i \in 1..3 : node_id[master_node_list[i]] # i - 1

\* two 'n' lines of the text declare the same layer and the same position
DuplicateSlot(text) ==
  \E i, j \in 1..Len(NLines(text)) :
     /\ i < j
     /\ NLines(text)[i].b = NLines(text)[j].b
     /\ NLines(text)[i].c = NLines(text)[j].c

\* C15: an sgf input with two 'n' lines of the same layer and position is
\* never loaded; insertIntoLayer aborts only on such an input, and
\* otherwise every layer is sorted by strictly ascending declared position,
\* while the nodes are being inserted and when the load is complete
C15_DuplicatePositionIsFatal ==
  /\ sgf_state = "loaded" => ~DuplicateSlot(sgf_text)
  /\ sgf_state = "fatal_position" => DuplicateSlot(sgf_text)
  /\ sgf_state \in {"inserting", "loaded"} =>
       /\ SortedByPosition
       /\ \A i \in 1..Len(master_node_list) :
            position[master_node_list[i]] = NLines(sgf_text)[i].c
\* the load has aborted on the third node, which repeats the slot of the
\* first one after a node of the same layer with a larger position was read
C15_Witness ==
  /\ sgf_state = "fatal_position"
  /\ Len(NLines(sgf_text)) = 3
  /\ \A i \in 1..3 : NLines(sgf_text)[i].b = 0
  /\ NLines(sgf_text)[1].c = NLines(sgf_text)[3].c
  /\ NLines(sgf_text)[2].c > NLines(sgf_text)[1].c

\* the names addEdge is about to be called with, <<>> when the next step
\* is no call of addEdge
AddEdgeCall ==
  IF sgf_state = "edges" /\ sgf_input # <<>> /\ Head(sgf_input).kind = "e"
  THEN <<Head(sgf_input).a, Head(sgf_input).b>>
  ELSE IF pc = "createEdges" THEN dot_input[loc.i + 1] ELSE <<>>
\* the nodes that carry a name
NodesNamed(name) == {n \in DOMAIN node_name : node_name[n] = name}
\* an endpoint is no known node, or the endpoints are on the same layer or
\* on layers more than one apart
EdgeRefused(source, target) ==
  \/ NodesNamed(source) = {}
  \/ NodesNamed(target) = {}
  \/ \E u \in NodesNamed(source), v \in NodesNamed(target) :
       \/ node_layer[u] = node_layer[v]
       \/ node_layer[u] - node_layer[v] > 1
       \/ node_layer[v] - node_layer[u] > 1
\* the load has been aborted by addEdge
AddEdgeAborted == sgf_state = "fatal_edge" \/ pc = "fatal"

\* C16: a call of addEdge aborts, leaving the master edge list and every
\* adjacency list as they were, when an endpoint name is no known node,
\* both endpoints are on one layer, or their layers differ by more than
\* one; every other call adds one edge and does not abort
C16_AddEdgeFatalCases ==
  [][AddEdgeCall # <<>> =>
       IF EdgeRefused(AddEdgeCall[1], AddEdgeCall[2])
       THEN AddEdgeAborted' /\ edgeVars' = edgeVars
       ELSE /\ ~AddEdgeAborted'
            /\ Len(master_edge_list') = Len(master_edge_list) + 1
            /\ SubSeq(master_edge_list', 1, Len(master_edge_list))
                 = master_edge_list]_vars
\* createEdges has added one edge and aborted on the second, which joins
\* known nodes two layers apart
C16_Witness ==
  /\ pc = "fatal" /\ Len(master_edge_list) = 1 /\ loc.i = 1
  /\ Len(dot_input) = 2
  /\ LET u == getFromHashTable(dot_input[2][1])
         v == getFromHashTable(dot_input[2][2])
     IN u # NoNode /\ v # NoNode /\ Abs(node_layer[u] - node_layer[v]) = 2

\* how often an edge occurs in an adjacency array
Occurrences(edges, edge) == Cardinality({i \in DOMAIN edges : edges[i] = edge})

\* C17: after a successful load every edge has its up node one layer above
\* its down node, however it was written in the input; it occurs exactly
\* once in the down_edges of its up node, exactly once in the up_edges of
\* its down node and in no other adjacency list; and up_degree and
\* down_degree of every node are the numbers of edges in its up_edges and
\* down_edges
C17_EdgesAndAdjacencyAgree ==
  Loaded =>
    /\ \A e \in DOMAIN master_edge_list :
         /\ node_layer[master_edge_list[e].up_node]
              = node_layer[master_edge_list[e].down_node] + 1
         /\ \A n \in DOMAIN node_id :
              /\ Occurrences(down_edges[n], e)
                   = IF n = master_edge_list[e].up_node THEN 1 ELSE 0
              /\ Occurrences(up_edges[n], e)
                   = IF n = master_edge_list[e].down_node THEN 1 ELSE 0
    /\ \A n \in DOMAIN node_id :
         /\ up_degree[n] = Len(up_edges[n])
         /\ down_degree[n] = Len(down_edges[n])
         /\ \A i \in 1..Len(up_edges[n]) : up_edges[n][i] \in DOMAIN master_edge_list
         /\ \A i \in 1..Len(down_edges[n]) : down_edges[n][i] \in DOMAIN master_edge_list
\* readDotAndOrd has loaded two edges at one node, the first written from
\* the higher layer to the lower one and the second the other way round
C17_Witness ==
  /\ pc = "loaded" /\ Len(master_edge_list) = 2
  /\ LET s1 == getFromHashTable(dot_input[1][1])
         t1 == getFromHashTable(dot_input[1][2])
         s2 == getFromHashTable(dot_input[2][1])
         t2 == getFromHashTable(dot_input[2][2])
     IN /\ node_layer[s1] > node_layer[t1]
        /\ node_layer[s2] < node_layer[t2]
        /\ t1 = s2

\* readSgf has ended without a graph
SgfAborted ==
  sgf_state \in {"fatal_line", "fatal_edge", "fatal_position", "crash"}

SgfForm(text) ==
  \E i \in 1..Len(text) : \E j \in i..Len(text) :
     /\ \A k \in 1..(i - 1) : text[k].kind \in {"c", "blank"}
     /\ text[i].kind = "t"
     /\ \A k \in (i + 1)..j : text[k].kind \in {"n", "blank"}
     /\ \A k \in (j + 1)..Len(text) : text[k].kind \in {"e", "blank"}
\* every line of the input has been read and taken
SgfLinesAccepted == sgf_state \in {"inserting", "loaded", "fatal_position"}

\* C19: readSgf takes exactly the texts of the sgf form: a text whose lines
\* were all taken has the form, and the reading of a text of the form is
\* ended neither by a fatal error about a line nor in any other way than
\* the fatal errors about edges and positions
C19_AcceptsExactlySgfForm ==
  /\ SgfLinesAccepted => SgfForm(sgf_text)
  /\ SgfForm(sgf_text) => sgf_state \notin {"fatal_line", "crash"}

\* the phase of main() that control is in: 1 preprocessor, 2 iteration 0,
\* 3 heuristic, 4 the heuristic has returned, 5 swapping, 6 output
PhaseOf(p) ==
  CASE p = "preprocess" -> 1
    [] p = "iteration0" -> 2
    [] p = "after_heuristic" -> 4
    [] p \in {"swap", "swap_end"} -> 5
    [] p = "exit" -> 6
    [] OTHER -> 3
\* the best-so-far records are the values and the layers of the ordering
\* lays with positions pos, recorded at iteration 0
RecordsTakenFrom(sts, lays, pos) ==
  /\ \A o \in Objectives :
       /\ sts[o].best = CurrentValues(pos, UpdatedCrossings(pos))[o]
       /\ sts[o].iter = 0
  /\ best_crossings_order' = lays
  /\ best_edge_crossings_order' = lays
  /\ best_total_stretch_order' = lays
  /\ best_bottleneck_stretch_order' = lays

Neighbours(n) ==
  {master_edge_list[e].up_node : e \in {f \in Edges : master_edge_list[f].down_node = n}}
  \cup {master_edge_list[e].down_node : e \in {f \in Edges : master_edge_list[f].up_node = n}}
\* the orders in which a breadth-first traversal can visit the nodes: the
\* traversal has visited the nodes of seen, in that order, and the nodes of
\* queue wait for their neighbours to be visited
RECURSIVE BfsRuns(_, _)
BfsRuns(queue, seen) ==
  IF Range(seen) = Nodes THEN {seen}
  ELSE IF queue = <<>>
  THEN UNION {BfsRuns(<<s>>, Append(seen, s)) : s \in Nodes \ Range(seen)}
  ELSE UNION {BfsRuns(Tail(queue) \o next, seen \o next) :
                next \in Permutations_(Neighbours(Head(queue)) \ Range(seen))}
BfsOrders == BfsRuns(<<>>, <<>>)
\* every layer stands in the order in which the traversal visited its nodes
InducedBy(order) ==
  \A l \in LayerIds : \A i \in 1..(Len(layers[l]) - 1) :
     IndexOf(order, layers[l][i]) < IndexOf(order, layers[l][i + 1])

\* C21: when the bfs preprocessor has run, every layer is sorted by the
\* index of its nodes in a breadth-first traversal order of the graph
C21_BfsOrdersLayers ==
  ev.returned = "bfs" => \E order \in BfsOrders : InducedBy(order)

\* the degrees along layer l, slot by slot
DegreesOn(l) == [i \in 1..Len(layers[l]) |-> Degree(layers[l][i])]
MiddleSlot(n) == (n - 1) \div 2
MiddleShaped(l) ==
  LET d == DegreesOn(l)
      n == Len(d)
      mid == MiddleSlot(n) + 1
  IN n > 0 =>
       /\ \A i \in 1..n : d[i] <= d[mid]
       /\ n >= 2 => \E j \in {mid - 1, mid + 1} \cap (1..n) :
                       \A i \in (1..n) \ {mid} : d[i] <= d[j]
       /\ \A i \in 1..(mid - 1) : d[i] <= d[i + 1]
       /\ \A i \in mid..(n - 1) : d[i] >= d[i + 1]
WeightsDistinct(l) ==
  LET w == weight_first_to_middle(layers[l])
  IN \A m, k \in Range(layers[l]) : m # k => w[m] # w[k]

\* C22: after middleDegreeSort every layer has a node of maximum degree at
\* slot floor((n-1)/2), the second-largest next to it, degrees rising up to
\* the middle and falling after it; the weights of weight_first_to_middle
\* are pairwise distinct on a layer
C22_MiddleDegreeShape ==
  ev.returned = "mds" =>
    \A l \in LayerIds : MiddleShaped(l) /\ WeightsDistinct(l)
C22_Witness ==
  /\ ev.returned = "mds"
  /\ number_of_nodes = 7
  /\ layers[1] = <<6, 5, 3, 4>>
  /\ layers[0] = <<2, 0, 1>>

\* a step of maximumCrossingsEdge that sifts an endpoint of an edge
MceSift == heuristic = "mce" /\ pc \in {"edge_pick", "edge_down"} /\ units' # units
\* the step that leaves the inner loop of a pass with the run going on
McePassEnds == heuristic = "mce" /\ pc = "edge_pick" /\ pc' = "terminate"
Isolated == {n \in Nodes : Degree(n) = 0}
\* the fixed flags change only for the node that is sifted
OnlySiftedFixed ==
  \A n \in Nodes : node_fixed'[n] # node_fixed[n] => MceSift /\ n = ev'.node

OtherEnd(e, n) ==
  IF master_edge_list[e].up_node = n
  THEN master_edge_list[e].down_node ELSE master_edge_list[e].up_node

LayerByLayer(list) ==
  \/ \A i, j \in 1..Len(list) : i < j => node_layer[list[i]] <= node_layer[list[j]]
  \/ \A i, j \in 1..Len(list) : i < j => node_layer[list[i]] >= node_layer[list[j]]
InSiftingPass == heuristic = "sifting" /\ pc \in {"sift_first", "sift_second"}

\* C25: with sift_option LAYER a pass of sifting visits the nodes in a
\* layer-by-layer sweep
C25_LayerOptionSweepsLayers ==
  InSiftingPass /\ sift_option = "LAYER" => LayerByLayer(master_node_list)

Printed == trace_last.called /\ trace_last.printed
PrintedPerLayer == Printed /\ trace_last.layer >= 0
PrintedEndOfPass == Printed /\ trace_last.layer < 0

\* the parts of the trace policy that hold
TraceNegativeSilent == trace_freq < 0 => ~ Printed
TraceZeroEndOfPassOnly == trace_freq = 0 => ~ PrintedPerLayer
TracePerLayerOncePerIteration ==
  trace_freq > 0 =>
    /\ trace_last.lines <= 1
    /\ PrintedPerLayer => iteration % trace_freq = 0

\* C26: nothing is printed with trace_freq < 0; only end-of-pass lines with
\* trace_freq = 0; with trace_freq > 0 at most one per-layer line per value
\* of iteration, and only at multiples of trace_freq; and no end-of-pass
\* line with trace_freq above TRACE_FREQ_THRESHOLD
C26_TracePolicy ==
  /\ TraceNegativeSilent
  /\ TraceZeroEndOfPassOnly
  /\ TracePerLayerOncePerIteration
  /\ trace_freq > TRACE_FREQ_THRESHOLD => ~ PrintedEndOfPass

\* the 't' line declares another number of nodes than there are 'n' lines
NodeCountMismatch ==
  SgfForm(sgf_text) /\ num_nodes # Len(NLines(sgf_text))

\* C27: reading an sgf text whose number of 'n' lines differs from the
\* number declared on the 't' line stores every node inside the master node
\* list, so the load is not ended by a store past the end of the list, and
\* a load that completes has as many nodes as there are 'n' lines
C27_MismatchIsWarningOnly ==
  NodeCountMismatch =>
    /\ sgf_state # "crash"
    /\ sgf_state = "loaded" => number_of_nodes = Len(NLines(sgf_text))

\* the rounds of the while loop of swapping() that have been completed:
\* post_processing_iteration is incremented three times in a round
SwappingRounds == post_processing_iteration \div 3
\* the number of crossings swapping() started with: the cached count is
\* not recomputed while swapping() runs
InitialCrossings == cached_crossings.total

\* C28: while swapping() runs, post_processing_crossings never increases
\* and never falls below zero, every completed round of the while loop that
\* was followed by another one lowered the best count by at least one, and
\* swapping() returns after at most (initial crossings + 1) rounds
C28_SwappingLoopBound ==
  [][(pc \in {"swap", "swap_end"}) =>
       /\ post_processing_crossings' <= post_processing_crossings
       /\ post_processing_crossings' >= 0
       /\ InitialCrossings' = InitialCrossings
       /\ pc' \in {"swap", "swap_end"} =>
            loc'.previous_best_crossings + SwappingRounds' <= InitialCrossings
       /\ (pc = "swap_end" /\ loc.odd_even = 1 /\ pc' # "exit") =>
            loc'.previous_best_crossings < InitialCrossings - (SwappingRounds' - 1)
       /\ pc' = "exit" => SwappingRounds' <= InitialCrossings + 1]_vars
\* swapping() has returned after as many rounds as the bound allows, the
\* first of which lowered the number of crossings
C28_Witness ==
  /\ SwappingReturned /\ InitialCrossings > 0
  /\ SwappingRounds = InitialCrossings + 1
  /\ post_processing_crossings < InitialCrossings

\* a layer, a node or an edge that was not fixed is fixed by the step, and
\* nothing that was fixed is released
FixesSomethingNew ==
  /\ \/ \E l \in LayerIds : ~ layer_fixed[l] /\ layer_fixed'[l]
     \/ \E n \in Nodes : ~ node_fixed[n] /\ node_fixed'[n]
     \/ \E e \in Edges : ~ edge_fixed[e] /\ edge_fixed'[e]
  /\ \A l \in LayerIds : layer_fixed[l] => layer_fixed'[l]
  /\ \A n \in Nodes : node_fixed[n] => node_fixed'[n]
  /\ \A e \in Edges : edge_fixed[e] => edge_fixed'[e]
\* a round of the inner loop of mod_bary, mcn, mce, mce_s or mse that does
\* not leave the loop
InnerIteration ==
  /\ pc \in {"mod_bary_pick", "mcn_pick", "edge_pick", "edge_down"}
  /\ pc' # "terminate"
\* the best value of every objective is never raised
BestNeverRaised ==
  \A o \in Objectives : stats'[o].best <= stats[o].best

PassLoopsEnd ==
  [][standard_termination /\ InnerIteration => FixesSomethingNew]_vars
LoopGoesOnOnlyIfImproved ==
  (standard_termination /\ ev.term = "false" /\ ev.after_pass) => ev.improved

WriteFileReturned == pc = "written"
FormatSelected == write_sgf_output \/ write_ord_output

\* what holds of writeFile: the text written is in the format the flags
\* select, with sgf taking precedence, and the sgf stream is closed once
WriteFileWritesSelectedFormat ==
  (WriteFileReturned /\ FormatSelected) =>
     /\ out_stream.text = IF write_sgf_output THEN writeSgf ELSE OrdText
     /\ write_sgf_output => out_stream.fclose_calls = 1

\* C30: for both output formats writeFile writes the current ordering in
\* the format selected and fclose is called on the stream exactly once
C30_StreamClosedOnce ==
  FormatSelected =>
    /\ out_stream.fclose_calls <= 1
    /\ pc # "crash"
    /\ WriteFileReturned =>
         /\ out_stream.fclose_calls = 1
         /\ out_stream.state = "closed"
         /\ out_stream.text = IF write_sgf_output THEN writeSgf ELSE OrdText

====
